---- MODULE Spec2Model ----
(***************************************************************************)
(* Two metadata-ingestion sources:                                         *)
(*   csv_enricher.py  CSVEnricherSource  (tabular enrichment)              *)
(*   ldap.py          LDAPSource         (paged directory crawl)           *)
(* Strings that the code takes apart (cells, directory values) are         *)
(* sequences of one-character strings; opaque strings stay strings.        *)
(***************************************************************************)
EXTENDS Integers, Sequences, FiniteSets, TLC

VARIABLES
    \* ---- csv_enricher.py ----
    should_overwrite,               \* config.should_overwrite
    graph,                          \* ctx.graph is not None
    catalog,                        \* what ctx.graph returns, per entity urn
    csvPc,                          \* "rows" | "flush" | "done": position in get_workunits
    rowsRead,                       \* rows consumed from the DictReader
    mapKeys,                        \* editable_schema_metadata_map: keys in insertion order
    editable_schema_metadata_map,   \* editable_schema_metadata_map: urn -> list of SubResourceRow
    flushIdx,                       \* get_sub_resource_work_units: next key to visit
    emitted,                        \* work units yielded so far, in order
    report,                         \* CSVEnricherReport counters
    calls,                          \* log of reconciler invocations and catalog fetches
    consumed,                       \* the rows read from the file so far, in order
    applied,                        \* emitted work units the sink has written to the catalog
    \* ---- ldap.py: LDAPSource ----
    drop_missing_first_last_name,   \* config.drop_missing_first_last_name
    urn_attr,                       \* config.user_attrs_map["urn"]
    ldapPc,                         \* "PAGING" | "ENTRIES" | "DONE" | "RAISED"
    lc_cookie,                      \* self.lc.cookie
    rdata,                          \* entries of the response being iterated
    idx,                            \* position of the for loop in rdata
    serverctrls,                    \* controls of the response being iterated
    searchCalls,                    \* subtree searches issued
    managerCalls,                   \* base-scoped manager searches issued
    managerSent,                    \* cookie of self.lc as each manager search carried it
    failures,                       \* report.failures: keys, in order
    warnings,                       \* report.warnings: keys, in order
    dropped_dns,                    \* report.dropped_dns
    ldapEmitted,                    \* work units yielded so far, in order
    sent,                           \* cookie carried by each subtree search
    responses,                      \* the answer to each subtree search
    last,                           \* the latest loop iteration: its entry, what it did,
                                    \* and the answer to its manager search
    dispatched,                     \* entries of rdata lists the loop has taken so far
    \* ---- ldap.py: strip_ldap_info ----
    strip_input,                    \* the argument of the call
    stripped,                       \* the value returned, once called
    \* ---- csv_enricher.py: the extractors on their own ----
    cell,                           \* the text of the cell
    extract_kind,                   \* "none" | the column the cell was extracted as
    extracted                       \* the associations returned

csvVars == <<should_overwrite, graph, catalog, csvPc, rowsRead, mapKeys,
             editable_schema_metadata_map, flushIdx, emitted, report, calls, consumed,
             applied>>

ldapVars == <<drop_missing_first_last_name, urn_attr, ldapPc, lc_cookie, rdata, idx,
              serverctrls, searchCalls, managerCalls, managerSent, failures, warnings,
              dropped_dns, ldapEmitted, sent, responses, last, dispatched>>

stripVars == <<strip_input, stripped>>

extractVars == <<cell, extract_kind, extracted>>

vars == <<csvVars, ldapVars, stripVars, extractVars>>

----------------------------------------------------------------------------
\* Bounds of the model.
MaxRows == 3
MaxPages == 3
MaxPageSize == 2
MaxEntries == 2
MaxNameLen == 2
MaxCellLen == 5

----------------------------------------------------------------------------
\* Sequence helpers.
Range(s) == {s[i] : i \in 1..Len(s)}

StartsWith(s, p) == Len(p) <= Len(s) /\ SubSeq(s, 1, Len(p)) = p

EndsWith(s, p) == Len(p) <= Len(s) /\ SubSeq(s, Len(s) - Len(p) + 1, Len(s)) = p

\* str.split(sep) for a one-character separator: every occurrence splits,
\* empty tokens are kept, and the result is never empty.
RECURSIVE SplitFrom(_, _, _)
SplitFrom(s, sep, cur) ==
    IF s = <<>> THEN <<cur>>
    ELSE IF Head(s) = sep THEN <<cur>> \o SplitFrom(Tail(s), sep, <<>>)
    ELSE SplitFrom(Tail(s), sep, Append(cur, Head(s)))

Split(s, sep) == SplitFrom(s, sep, <<>>)

\* Optional[...] values.
None == [exists |-> FALSE, items |-> <<>>]
Some(items) == [exists |-> TRUE, items |-> items]

----------------------------------------------------------------------------
\* csv_enricher.py constants
SCHEMA_ASPECT_NAME == "editableSchemaMetadata"
DATASET_ENTITY_TYPE == "dataset"
GLOSSARY_TERMS_ASPECT_NAME == "glossaryTerms"
TAGS_ASPECT_NAME == "globalTags"
OWNERSHIP_ASPECT_NAME == "ownership"

maybe_remove_prefix(s, prefix) ==
    IF ~StartsWith(s, prefix) THEN s ELSE SubSeq(s, Len(prefix) + 1, Len(s))

\* maybe_remove_suffix without the test of line 53.
maybe_remove_suffix_unchecked(s, suffix) == SubSeq(s, 1, Len(s) - Len(suffix))

maybe_remove_suffix(s, suffix) ==
    IF ~EndsWith(s, suffix) THEN s ELSE SubSeq(s, 1, Len(s) - Len(suffix))

sanitize_array_string(s) ==
    maybe_remove_suffix(maybe_remove_prefix(s, <<"[">>), <<"]">>)

\* config.array_delimiter (default)
array_delimiter == ","

----------------------------------------------------------------------------
\* Inputs. Entity references (the resource column) and their URN type.
Dataset1 == "urn:li:dataset:1"
Dataset2 == "urn:li:dataset:2"
Chart1 == "urn:li:chart:1"
Entities == {Dataset1, Dataset2, Chart1}

\* Urn.create_from_string(urn).get_type()
EntityType(urn) == IF urn \in {Dataset1, Dataset2} THEN DATASET_ENTITY_TYPE ELSE "chart"

\* Association identifiers (URNs) are tokens of a cell.
IdA == <<"a">>
IdB == <<"b">>

\* Cells of the glossary_terms / tags / owners columns.
CellEmpty == <<>>
CellA == <<"[", "a", "]">>
CellB == <<"b">>
CellAB == <<"[", "a", ",", "b", "]">>
CellBB == <<"[", "b", ",", "b", "]">>

\* Field paths are kept as their dot-separated tokens; the empty path is an
\* empty subresource cell.
NoSubresource == <<>>
FieldF1 == <<"f1">>
FieldF2 == <<"f2">>
FieldV2F1 == <<"[version=2.0]", "[type=string]", "f1">>

\* DatasetUrn._get_simple_field_path_from_v2_field_path
get_simple_field_path_from_v2_field_path(field_path) ==
    IF Len(field_path) > 0 /\ field_path[1] = "[version=2.0]"
    THEN SelectSeq(field_path, LAMBDA t : t \notin {"[version=2.0]", "[type=string]"})
    ELSE field_path

Row(resource, subresource, glossary_terms, tags, owners) ==
    [resource |-> resource, subresource |-> subresource,
     glossary_terms |-> glossary_terms, tags |-> tags, owners |-> owners]

\* The rows a file may hold.
ResourceRows ==
    { Row(Dataset1, NoSubresource, CellA, CellEmpty, CellAB),
      Row(Dataset1, NoSubresource, CellBB, CellA, CellEmpty),
      Row(Dataset1, NoSubresource, CellEmpty, CellAB, CellBB),
      Row(Chart1, NoSubresource, CellAB, CellB, CellA) }

SubResourceRows ==
    { Row(Dataset1, FieldF1, CellA, CellEmpty, CellA),
      Row(Dataset1, FieldF1, CellEmpty, CellAB, CellEmpty),
      Row(Dataset1, FieldF1, CellB, CellB, CellEmpty),
      Row(Dataset1, FieldF2, CellEmpty, CellEmpty, CellAB),
      Row(Dataset1, FieldV2F1, CellB, CellEmpty, CellEmpty),
      Row(Dataset2, FieldF1, CellBB, CellB, CellEmpty),
      Row(Dataset2, FieldF2, CellEmpty, CellEmpty, CellEmpty),
      Row(Chart1, FieldF1, CellA, CellA, CellA) }

RowPool == ResourceRows \cup SubResourceRows
             \cup { Row("", FieldF1, CellA, CellA, CellA) }

\* States of the catalog behind ctx.graph.
NoAspects ==
    [glossaryTerms |-> None, globalTags |-> None, ownership |-> None,
     editableSchemaMetadata |-> None]

FieldInfo(fieldPath, glossaryTerms, globalTags) ==
    [fieldPath |-> fieldPath, glossaryTerms |-> glossaryTerms, globalTags |-> globalTags]

CatalogEmpty == [e \in Entities |-> NoAspects]

CatalogOne ==
    [CatalogEmpty EXCEPT
        ![Dataset1] = [glossaryTerms |-> Some(<<IdA>>),
                       globalTags |-> Some(<<IdB, IdA>>),
                       ownership |-> Some(<<>>),
                       editableSchemaMetadata |->
                           Some(<<FieldInfo(FieldF1, Some(<<IdA>>), None)>>)],
        ![Chart1] = [NoAspects EXCEPT !.glossaryTerms = Some(<<IdB>>)]]

CatalogTwo ==
    [CatalogEmpty EXCEPT
        ![Dataset1] = [glossaryTerms |-> Some(<<IdB, IdA>>),
                       globalTags |-> Some(<<IdA>>),
                       ownership |-> Some(<<IdA, IdB>>),
                       editableSchemaMetadata |->
                           Some(<<FieldInfo(FieldV2F1, Some(<<IdA>>), Some(<<IdB, IdA>>)),
                                  FieldInfo(FieldF1, None, Some(<<>>))>>)],
        ![Dataset2] = [NoAspects EXCEPT
                          !.editableSchemaMetadata =
                              Some(<<FieldInfo(FieldF1, Some(<<IdB>>), Some(<<IdB>>))>>)]]

\* Two entries for the same column, neither with terms or tags yet.
CatalogThree ==
    [CatalogEmpty EXCEPT
        ![Dataset1] = [NoAspects EXCEPT
                          !.editableSchemaMetadata =
                              Some(<<FieldInfo(FieldV2F1, None, None),
                                     FieldInfo(FieldF1, None, None)>>)]]

Catalogs == {CatalogEmpty, CatalogOne, CatalogTwo, CatalogThree}

----------------------------------------------------------------------------
\* Association Extractor

maybe_extract_glossary_terms(row) ==
    IF row.glossary_terms = <<>> THEN <<>>
    ELSE Split(sanitize_array_string(row.glossary_terms), array_delimiter)

maybe_extract_tags(row) ==
    IF row.tags = <<>> THEN <<>>
    ELSE Split(sanitize_array_string(row.tags), array_delimiter)

\* maybe_extract_owners without the early return of lines 435-436.
maybe_extract_owners_any_row(row, is_resource_row) ==
    IF row.owners = <<>> THEN <<>>
    ELSE Split(sanitize_array_string(row.owners), array_delimiter)

\* maybe_extract_owners with the test of line 435 inverted.
maybe_extract_owners_of_subresource_rows(row, is_resource_row) ==
    IF is_resource_row THEN <<>>
    ELSE IF row.owners = <<>> THEN <<>>
    ELSE Split(sanitize_array_string(row.owners), array_delimiter)

maybe_extract_owners(row, is_resource_row) ==
    IF ~is_resource_row THEN <<>>
    ELSE IF row.owners = <<>> THEN <<>>
    ELSE Split(sanitize_array_string(row.owners), array_delimiter)

----------------------------------------------------------------------------
\* Entity-Level Reconciler. Each operator returns what the call did:
\*   fetched: whether ctx.graph was asked, prior: what it answered,
\*   wu: the work unit returned (a list of none or one).

WorkUnit(entity_urn, entity_type, aspectName, aspect, fieldInfos) ==
    [id |-> <<entity_urn, aspectName>>, entityType |-> entity_type,
     aspectName |-> aspectName, aspect |-> aspect,
     editableSchemaFieldInfo |-> fieldInfos]

Outcome(fetched, prior, wu) == [fetched |-> fetched, prior |-> prior, wu |-> wu]

\* CannotAppend that forgets to look at should_overwrite.
CannotAppendWithoutGraph == ~graph

\* Lines 125-128, 176-179, 225-228 and 358-361: append is asked for and there
\* is no graph to read the prior state from.
CannotAppend == ~should_overwrite /\ ~graph

\* get_resource_glossary_terms_work_unit without the early return of lines
\* 146-147.
get_resource_glossary_terms_always_emits(entity_urn, entity_type, term_associations) ==
    IF Len(term_associations) <= 0 THEN Outcome(FALSE, None, <<>>)
    ELSE IF CannotAppend THEN Outcome(FALSE, None, <<>>)
    ELSE
        LET current_terms ==
                IF ~should_overwrite THEN catalog[entity_urn].glossaryTerms ELSE None
            current_term_urns == Range(current_terms.items)
            term_associations_filtered ==
                SelectSeq(term_associations, LAMBDA a : a \notin current_term_urns)
        IN  IF ~current_terms.exists
            THEN Outcome(~should_overwrite, current_terms,
                         <<WorkUnit(entity_urn, entity_type, GLOSSARY_TERMS_ASPECT_NAME,
                                    term_associations, <<>>)>>)
            ELSE Outcome(TRUE, current_terms,
                         <<WorkUnit(entity_urn, entity_type, GLOSSARY_TERMS_ASPECT_NAME,
                                    current_terms.items \o term_associations_filtered,
                                    <<>>)>>)

\* get_resource_glossary_terms_work_unit without the return of lines 127-128:
\* with no graph there is nothing to read and the new terms are written.
get_resource_glossary_terms_ignores_missing_graph(entity_urn, entity_type, term_associations) ==
    IF Len(term_associations) <= 0 THEN Outcome(FALSE, None, <<>>)
    ELSE
        LET current_terms ==
                IF ~should_overwrite /\ graph THEN catalog[entity_urn].glossaryTerms ELSE None
            current_term_urns == Range(current_terms.items)
            term_associations_filtered ==
                SelectSeq(term_associations, LAMBDA a : a \notin current_term_urns)
        IN  IF ~current_terms.exists
            THEN Outcome(~should_overwrite /\ graph, current_terms,
                         <<WorkUnit(entity_urn, entity_type, GLOSSARY_TERMS_ASPECT_NAME,
                                    term_associations, <<>>)>>)
            ELSE IF Len(term_associations_filtered) <= 0
            THEN Outcome(TRUE, current_terms, <<>>)
            ELSE Outcome(TRUE, current_terms,
                         <<WorkUnit(entity_urn, entity_type, GLOSSARY_TERMS_ASPECT_NAME,
                                    current_terms.items \o term_associations_filtered,
                                    <<>>)>>)

get_resource_glossary_terms_work_unit(entity_urn, entity_type, term_associations) ==
    IF Len(term_associations) <= 0 THEN Outcome(FALSE, None, <<>>)
    ELSE IF CannotAppend THEN Outcome(FALSE, None, <<>>)
    ELSE
        LET current_terms ==
                IF ~should_overwrite THEN catalog[entity_urn].glossaryTerms ELSE None
            current_term_urns == Range(current_terms.items)
            term_associations_filtered ==
                SelectSeq(term_associations, LAMBDA a : a \notin current_term_urns)
        IN  IF ~current_terms.exists
            THEN Outcome(~should_overwrite, current_terms,
                         <<WorkUnit(entity_urn, entity_type, GLOSSARY_TERMS_ASPECT_NAME,
                                    term_associations, <<>>)>>)
            ELSE IF Len(term_associations_filtered) <= 0
            THEN Outcome(TRUE, current_terms, <<>>)
            ELSE Outcome(TRUE, current_terms,
                         <<WorkUnit(entity_urn, entity_type, GLOSSARY_TERMS_ASPECT_NAME,
                                    current_terms.items \o term_associations_filtered,
                                    <<>>)>>)

\* get_resource_tags_work_unit extending with tag_associations instead of
\* tag_associations_filtered in line 199.
get_resource_tags_extends_unfiltered(entity_urn, entity_type, tag_associations) ==
    IF Len(tag_associations) <= 0 THEN Outcome(FALSE, None, <<>>)
    ELSE IF CannotAppend THEN Outcome(FALSE, None, <<>>)
    ELSE
        LET current_tags ==
                IF ~should_overwrite THEN catalog[entity_urn].globalTags ELSE None
            current_tag_urns == Range(current_tags.items)
            tag_associations_filtered ==
                SelectSeq(tag_associations, LAMBDA a : a \notin current_tag_urns)
        IN  IF ~current_tags.exists
            THEN Outcome(~should_overwrite, current_tags,
                         <<WorkUnit(entity_urn, entity_type, TAGS_ASPECT_NAME,
                                    tag_associations, <<>>)>>)
            ELSE IF Len(tag_associations_filtered) <= 0
            THEN Outcome(TRUE, current_tags, <<>>)
            ELSE Outcome(TRUE, current_tags,
                         <<WorkUnit(entity_urn, entity_type, TAGS_ASPECT_NAME,
                                    current_tags.items \o tag_associations, <<>>)>>)

get_resource_tags_work_unit(entity_urn, entity_type, tag_associations) ==
    IF Len(tag_associations) <= 0 THEN Outcome(FALSE, None, <<>>)
    ELSE IF CannotAppend THEN Outcome(FALSE, None, <<>>)
    ELSE
        LET current_tags ==
                IF ~should_overwrite THEN catalog[entity_urn].globalTags ELSE None
            current_tag_urns == Range(current_tags.items)
            tag_associations_filtered ==
                SelectSeq(tag_associations, LAMBDA a : a \notin current_tag_urns)
        IN  IF ~current_tags.exists
            THEN Outcome(~should_overwrite, current_tags,
                         <<WorkUnit(entity_urn, entity_type, TAGS_ASPECT_NAME,
                                    tag_associations, <<>>)>>)
            ELSE IF Len(tag_associations_filtered) <= 0
            THEN Outcome(TRUE, current_tags, <<>>)
            ELSE Outcome(TRUE, current_tags,
                         <<WorkUnit(entity_urn, entity_type, TAGS_ASPECT_NAME,
                                    current_tags.items \o tag_associations_filtered,
                                    <<>>)>>)

\* get_resource_owners_work_unit reading the catalog in overwrite mode too
\* (the test of line 225 dropped).
get_resource_owners_always_fetches(entity_urn, entity_type, owners) ==
    IF Len(owners) <= 0 THEN Outcome(FALSE, None, <<>>)
    ELSE IF ~graph THEN Outcome(FALSE, None, <<>>)
    ELSE
        LET current_ownership == catalog[entity_urn].ownership
            current_owner_urns == Range(current_ownership.items)
            owners_filtered ==
                SelectSeq(owners, LAMBDA o : o \notin current_owner_urns)
        IN  IF ~current_ownership.exists
            THEN Outcome(TRUE, current_ownership,
                         <<WorkUnit(entity_urn, entity_type, OWNERSHIP_ASPECT_NAME,
                                    owners, <<>>)>>)
            ELSE IF Len(owners_filtered) <= 0
            THEN Outcome(TRUE, current_ownership, <<>>)
            ELSE Outcome(TRUE, current_ownership,
                         <<WorkUnit(entity_urn, entity_type, OWNERSHIP_ASPECT_NAME,
                                    current_ownership.items \o owners_filtered,
                                    <<>>)>>)

get_resource_owners_work_unit(entity_urn, entity_type, owners) ==
    IF Len(owners) <= 0 THEN Outcome(FALSE, None, <<>>)
    ELSE IF CannotAppend THEN Outcome(FALSE, None, <<>>)
    ELSE
        LET current_ownership ==
                IF ~should_overwrite THEN catalog[entity_urn].ownership ELSE None
            current_owner_urns == Range(current_ownership.items)
            owners_filtered ==
                SelectSeq(owners, LAMBDA o : o \notin current_owner_urns)
        IN  IF ~current_ownership.exists
            THEN Outcome(~should_overwrite, current_ownership,
                         <<WorkUnit(entity_urn, entity_type, OWNERSHIP_ASPECT_NAME,
                                    owners, <<>>)>>)
            ELSE IF Len(owners_filtered) <= 0
            THEN Outcome(TRUE, current_ownership, <<>>)
            ELSE Outcome(TRUE, current_ownership,
                         <<WorkUnit(entity_urn, entity_type, OWNERSHIP_ASPECT_NAME,
                                    current_ownership.items \o owners_filtered,
                                    <<>>)>>)

----------------------------------------------------------------------------
\* Subresource Accumulator and Flush.
\* The association lists are Python list objects that several holders may
\* share: GlossaryTermsClass(term_associations, ...) and
\* GlobalTagsClass(tag_associations) keep the list they are given, and
\* field_info.glossaryTerms = terms_aspect stores the same aspect object in
\* every matching entry. During the flush of one entity the lists live in a
\* heap (a sequence of lists) and are named by their index; 0 is None.
\*   row i of the entity:      terms list at 2i-1, tags list at 2i
\*   fetched entry j (k rows): terms list at 2k+2j-1, tags list at 2k+2j

TermsRef(i) == 2 * i - 1
TagsRef(i) == 2 * i

SubResourceRow(entity_urn, field_path, term_associations, tag_associations) ==
    [entity_urn |-> entity_urn, field_path |-> field_path,
     term_associations |-> term_associations, tag_associations |-> tag_associations]

\* The heap holding the lists of an entity's accumulated rows.
RECURSIVE RowLists(_)
RowLists(rows) ==
    IF rows = <<>> THEN <<>>
    ELSE <<Head(rows).term_associations, Head(rows).tag_associations>>
            \o RowLists(Tail(rows))

\* The lists of a fetched EditableSchemaMetadata, in entry order.
RECURSIVE FetchedLists(_)
FetchedLists(infos) ==
    IF infos = <<>> THEN <<>>
    ELSE <<Head(infos).glossaryTerms.items, Head(infos).globalTags.items>>
            \o FetchedLists(Tail(infos))

\* The fetched entries, pointing into the heap after the k rows' lists; the
\* list is built entry by entry, the last one being entry j = Len(infos).
RECURSIVE FetchedEntries(_, _)
FetchedEntries(infos, k) ==
    IF infos = <<>> THEN <<>>
    ELSE LET j == Len(infos)
         IN  Append(FetchedEntries(SubSeq(infos, 1, j - 1), k),
                    [fieldPath |-> infos[j].fieldPath,
                     glossaryTerms |-> IF infos[j].glossaryTerms.exists
                                       THEN 2 * k + 2 * j - 1 ELSE 0,
                     globalTags |-> IF infos[j].globalTags.exists
                                    THEN 2 * k + 2 * j ELSE 0])

\* The field-info list as the sink sees it: every reference followed.
Deref(ref, heap) == IF ref = 0 THEN None ELSE Some(heap[ref])

Resolve(infos, heap) ==
    [j \in 1..Len(infos) |->
        FieldInfo(infos[j].fieldPath,
                  Deref(infos[j].glossaryTerms, heap),
                  Deref(infos[j].globalTags, heap))]

\* process_sub_resource_row, lines 305-322: the terms of the matching entry j.
MergeTerms(st, j, i, has_terms) ==
    LET field_info == st.infos[j]
        term_associations == st.heap[TermsRef(i)]
    IN  IF ~has_terms THEN st
        ELSE IF field_info.glossaryTerms # 0 /\ ~should_overwrite
        THEN LET current_term_urns == Range(st.heap[field_info.glossaryTerms])
                 term_associations_filtered ==
                     SelectSeq(term_associations, LAMBDA a : a \notin current_term_urns)
             IN  IF Len(term_associations_filtered) > 0
                 THEN [st EXCEPT
                          !.heap[field_info.glossaryTerms] = @ \o term_associations_filtered,
                          !.needs_write = TRUE]
                 ELSE st
        ELSE [st EXCEPT !.infos[j].glossaryTerms = TermsRef(i), !.needs_write = TRUE]

\* MergeTags with needs_write = True of line 336 one level up, outside the
\* test of line 334.
MergeTagsAlwaysDirty(st, j, i, has_tags) ==
    LET field_info == st.infos[j]
        tag_associations == st.heap[TagsRef(i)]
    IN  IF ~has_tags THEN st
        ELSE IF field_info.globalTags # 0 /\ ~should_overwrite
        THEN LET current_tag_urns == Range(st.heap[field_info.globalTags])
                 tag_associations_filtered ==
                     SelectSeq(tag_associations, LAMBDA a : a \notin current_tag_urns)
             IN  [st EXCEPT
                     !.heap[field_info.globalTags] = @ \o tag_associations_filtered,
                     !.needs_write = TRUE]
        ELSE [st EXCEPT !.infos[j].globalTags = TagsRef(i), !.needs_write = TRUE]

\* process_sub_resource_row, lines 324-339: the tags of the matching entry j.
MergeTags(st, j, i, has_tags) ==
    LET field_info == st.infos[j]
        tag_associations == st.heap[TagsRef(i)]
    IN  IF ~has_tags THEN st
        ELSE IF field_info.globalTags # 0 /\ ~should_overwrite
        THEN LET current_tag_urns == Range(st.heap[field_info.globalTags])
                 tag_associations_filtered ==
                     SelectSeq(tag_associations, LAMBDA a : a \notin current_tag_urns)
             IN  IF Len(tag_associations_filtered) > 0
                 THEN [st EXCEPT
                          !.heap[field_info.globalTags] = @ \o tag_associations_filtered,
                          !.needs_write = TRUE]
                 ELSE st
        ELSE [st EXCEPT !.infos[j].globalTags = TagsRef(i), !.needs_write = TRUE]

\* ScanFieldInfos with a break after the first matching entry.
RECURSIVE ScanFieldInfosFirstMatch(_, _, _, _, _, _)
ScanFieldInfosFirstMatch(st, j, i, field_path, has_terms, has_tags) ==
    IF j > Len(st.infos) THEN st
    ELSE IF get_simple_field_path_from_v2_field_path(st.infos[j].fieldPath) = field_path
    THEN MergeTags(MergeTerms([st EXCEPT !.field_match = TRUE], j, i, has_terms),
                   j, i, has_tags)
    ELSE ScanFieldInfosFirstMatch(st, j + 1, i, field_path, has_terms, has_tags)

\* process_sub_resource_row, lines 296-339: the scan over all entries from j on.
RECURSIVE ScanFieldInfos(_, _, _, _, _, _)
ScanFieldInfos(st, j, i, field_path, has_terms, has_tags) ==
    IF j > Len(st.infos) THEN st
    ELSE IF get_simple_field_path_from_v2_field_path(st.infos[j].fieldPath) = field_path
    THEN ScanFieldInfos(
             MergeTags(MergeTerms([st EXCEPT !.field_match = TRUE], j, i, has_terms),
                       j, i, has_tags),
             j + 1, i, field_path, has_terms, has_tags)
    ELSE ScanFieldInfos(st, j + 1, i, field_path, has_terms, has_tags)

\* process_sub_resource_row for row i of the entity; st is
\* [infos, heap, needs_write, field_match].
process_sub_resource_row(field_path, i, st) ==
    LET has_terms == Len(st.heap[TermsRef(i)]) > 0
        has_tags == Len(st.heap[TagsRef(i)]) > 0
        field_info_to_set ==
            [fieldPath |-> field_path,
             glossaryTerms |-> IF has_terms THEN TermsRef(i) ELSE 0,
             globalTags |-> IF has_tags THEN TagsRef(i) ELSE 0]
        scanned == ScanFieldInfos([st EXCEPT !.field_match = FALSE], 1, i,
                                  field_path, has_terms, has_tags)
    IN  IF ~has_tags /\ ~has_terms THEN st
        ELSE IF ~scanned.field_match
        THEN [scanned EXCEPT !.infos = Append(@, field_info_to_set),
                             !.needs_write = TRUE]
        ELSE scanned

\* FoldRows taking the rows from the last to the first.
RECURSIVE FoldRowsReversed(_, _, _)
FoldRowsReversed(rows, i, st) ==
    IF i > Len(rows) THEN st
    ELSE process_sub_resource_row(rows[i].field_path, i, FoldRowsReversed(rows, i + 1, st))

\* get_sub_resource_work_units, lines 379-387: the rows from i on, in order.
RECURSIVE FoldRows(_, _, _)
FoldRows(rows, i, st) ==
    IF i > Len(rows) THEN st
    ELSE FoldRows(rows, i + 1, process_sub_resource_row(rows[i].field_path, i, st))

\* FlushOf without the needs_write = True of line 376.
FlushOfStartsClean(entity_urn) ==
    LET rows == editable_schema_metadata_map[entity_urn]
        k == Len(rows)
        skipped == CannotAppend
        fetchedNow == ~should_overwrite /\ graph
        fetched == IF fetchedNow THEN catalog[entity_urn].editableSchemaMetadata ELSE None
        start ==
            IF fetched.exists
            THEN [infos |-> FetchedEntries(fetched.items, k),
                  heap |-> RowLists(rows) \o FetchedLists(fetched.items),
                  needs_write |-> FALSE, field_match |-> FALSE]
            ELSE [infos |-> <<>>, heap |-> RowLists(rows),
                  needs_write |-> FALSE, field_match |-> FALSE]
        end == FoldRows(rows, 1, start)
    IN  [skipped |-> skipped,
         fetched |-> fetchedNow,
         prior |-> fetched,
         needs_write |-> ~skipped /\ end.needs_write,
         infos |-> Resolve(end.infos, end.heap),
         rows |-> IF skipped THEN rows
                  ELSE [i \in 1..k |->
                           [rows[i] EXCEPT !.term_associations = end.heap[TermsRef(i)],
                                           !.tag_associations = end.heap[TagsRef(i)]]]]

\* get_sub_resource_work_units, lines 353-387: one iteration of the loop over
\* the map, up to the write. skipped: the `continue` of line 361.
FlushOf(entity_urn) ==
    LET rows == editable_schema_metadata_map[entity_urn]
        k == Len(rows)
        skipped == CannotAppend
        fetchedNow == ~should_overwrite /\ graph
        fetched == IF fetchedNow THEN catalog[entity_urn].editableSchemaMetadata ELSE None
        start ==
            IF fetched.exists
            THEN [infos |-> FetchedEntries(fetched.items, k),
                  heap |-> RowLists(rows) \o FetchedLists(fetched.items),
                  needs_write |-> FALSE, field_match |-> FALSE]
            ELSE [infos |-> <<>>, heap |-> RowLists(rows),
                  needs_write |-> TRUE, field_match |-> FALSE]
        end == FoldRows(rows, 1, start)
    IN  [skipped |-> skipped,
         fetched |-> fetchedNow,
         prior |-> fetched,
         needs_write |-> ~skipped /\ end.needs_write,
         infos |-> Resolve(end.infos, end.heap),
         rows |-> IF skipped THEN rows
                  ELSE [i \in 1..k |->
                           [rows[i] EXCEPT !.term_associations = end.heap[TermsRef(i)],
                                           !.tag_associations = end.heap[TagsRef(i)]]]]

----------------------------------------------------------------------------
\* CSVEnricherSource.get_workunits

NotCalled == Outcome(FALSE, None, <<>>)

Call(aspectName, row, new, outcome) ==
    [aspectName |-> aspectName, entity_urn |-> row.resource,
     subresource |-> row.subresource, new |-> new,
     fetched |-> outcome.fetched, prior |-> outcome.prior, wu |-> outcome.wu]

CsvInit ==
    /\ should_overwrite \in BOOLEAN
    /\ graph \in BOOLEAN
    /\ catalog \in (IF graph THEN Catalogs ELSE {CatalogEmpty})
    /\ csvPc = "rows"
    /\ rowsRead = 0
    /\ mapKeys = <<>>
    /\ editable_schema_metadata_map = [e \in Entities |-> <<>>]
    /\ flushIdx = 1
    /\ emitted = <<>>
    /\ report = [num_glossary_term_workunits_produced |-> 0,
                 num_tag_workunits_produced |-> 0,
                 num_owners_workunits_produced |-> 0,
                 num_editable_schema_metadata_workunits_produced |-> 0,
                 workunits_produced |-> 0]
    /\ calls = <<>>
    /\ consumed = <<>>
    /\ applied = 0

\* Lines 453-534: one iteration of the loop over the rows of the file.
ReadRow ==
    /\ csvPc = "rows"
    /\ rowsRead < MaxRows
    /\ \E row \in RowPool :
        LET is_resource_row == row.subresource = NoSubresource
            entity_urn == row.resource
            entity_type == EntityType(row.resource)
            term_associations == maybe_extract_glossary_terms(row)
            callTerms == Len(term_associations) > 0 /\ is_resource_row
            terms == IF callTerms
                     THEN get_resource_glossary_terms_work_unit(
                              entity_urn, entity_type, term_associations)
                     ELSE NotCalled
            tag_associations == maybe_extract_tags(row)
            callTags == Len(tag_associations) > 0 /\ is_resource_row
            tags == IF callTags
                    THEN get_resource_tags_work_unit(
                             entity_urn, entity_type, tag_associations)
                    ELSE NotCalled
            owners == maybe_extract_owners(row, is_resource_row)
            callOwners == Len(owners) > 0
            ownership == IF callOwners
                         THEN get_resource_owners_work_unit(entity_urn, entity_type, owners)
                         ELSE NotCalled
            accumulate == ~is_resource_row /\ entity_type = DATASET_ENTITY_TYPE
        IN  /\ rowsRead' = rowsRead + 1
            /\ consumed' = Append(consumed, row)
            /\ IF row.resource = ""
               THEN UNCHANGED <<mapKeys, editable_schema_metadata_map, emitted, report, calls>>
               ELSE /\ emitted' = emitted \o terms.wu \o tags.wu \o ownership.wu
                    /\ report' =
                        [report EXCEPT
                            !.num_glossary_term_workunits_produced = @ + Len(terms.wu),
                            !.num_tag_workunits_produced = @ + Len(tags.wu),
                            !.num_owners_workunits_produced = @ + Len(ownership.wu),
                            !.workunits_produced =
                                @ + Len(terms.wu) + Len(tags.wu) + Len(ownership.wu)]
                    /\ calls' = calls
                        \o (IF callTerms
                            THEN <<Call(GLOSSARY_TERMS_ASPECT_NAME, row, term_associations, terms)>>
                            ELSE <<>>)
                        \o (IF callTags
                            THEN <<Call(TAGS_ASPECT_NAME, row, tag_associations, tags)>>
                            ELSE <<>>)
                        \o (IF callOwners
                            THEN <<Call(OWNERSHIP_ASPECT_NAME, row, owners, ownership)>>
                            ELSE <<>>)
                    /\ mapKeys' =
                        IF accumulate /\ entity_urn \notin Range(mapKeys)
                        THEN Append(mapKeys, entity_urn) ELSE mapKeys
                    /\ editable_schema_metadata_map' =
                        IF accumulate
                        THEN [editable_schema_metadata_map EXCEPT
                                 ![entity_urn] =
                                     Append(@, SubResourceRow(entity_urn, row.subresource,
                                                              term_associations,
                                                              tag_associations))]
                        ELSE editable_schema_metadata_map
    /\ UNCHANGED <<should_overwrite, graph, catalog, csvPc, flushIdx, applied>>
    /\ UNCHANGED <<ldapVars, stripVars, extractVars>>

\* The DictReader is exhausted: the loop of line 453 ends and the generator
\* goes on to line 537.
EndOfInput ==
    /\ csvPc = "rows"
    /\ csvPc' = IF mapKeys = <<>> THEN "done" ELSE "flush"
    /\ UNCHANGED <<should_overwrite, graph, catalog, rowsRead, mapKeys,
                   editable_schema_metadata_map, flushIdx, emitted, report, calls,
                   consumed, applied>>
    /\ UNCHANGED <<ldapVars, stripVars, extractVars>>

\* SchemaWorkUnits with the write of lines 390-404 inside the loop over the
\* rows (one indentation level deeper).
SchemaWorkUnitsPerRow(entity_urn, f) ==
    IF f.needs_write
    THEN [i \in 1..Len(f.rows) |->
             WorkUnit(entity_urn, DATASET_ENTITY_TYPE, SCHEMA_ASPECT_NAME, <<>>, f.infos)]
    ELSE <<>>

\* get_sub_resource_work_units, lines 389-404: the work units of one
\* iteration of the loop over the map.
SchemaWorkUnits(entity_urn, f) ==
    IF f.needs_write
    THEN <<WorkUnit(entity_urn, DATASET_ENTITY_TYPE, SCHEMA_ASPECT_NAME, <<>>, f.infos)>>
    ELSE <<>>

\* Lines 537-541 around one iteration of get_sub_resource_work_units.
FlushEntity ==
    /\ csvPc = "flush"
    /\ flushIdx <= Len(mapKeys)
    /\ LET entity_urn == mapKeys[flushIdx]
           f == FlushOf(entity_urn)
           wu == SchemaWorkUnits(entity_urn, f)
       IN  /\ emitted' = emitted \o wu
           /\ report' =
               [report EXCEPT
                   !.num_editable_schema_metadata_workunits_produced = @ + Len(wu),
                   !.workunits_produced = @ + 2 * Len(wu)]
           /\ calls' = Append(calls,
                  [aspectName |-> SCHEMA_ASPECT_NAME, entity_urn |-> entity_urn,
                   subresource |-> NoSubresource, new |-> <<>>,
                   fetched |-> f.fetched, prior |-> f.prior, wu |-> wu])
           /\ editable_schema_metadata_map' =
               [editable_schema_metadata_map EXCEPT ![entity_urn] = f.rows]
    /\ flushIdx' = flushIdx + 1
    /\ csvPc' = IF flushIdx = Len(mapKeys) THEN "done" ELSE "flush"
    /\ UNCHANGED <<should_overwrite, graph, catalog, rowsRead, mapKeys, consumed,
                   applied>>
    /\ UNCHANGED <<ldapVars, stripVars, extractVars>>

----------------------------------------------------------------------------
\* The sink downstream of get_workunits. A work unit is an UPSERT
\* (ChangeTypeClass.UPSERT, lines 155, 204, 253, 394): the sink replaces the
\* aspect of the entity by the aspect the work unit carries. The pipeline
\* hands the work units to the sink in the order they were yielded; the sink
\* writes each one at some later moment.

AspectField(aspectName) ==
    CASE aspectName = GLOSSARY_TERMS_ASPECT_NAME -> "glossaryTerms"
      [] aspectName = TAGS_ASPECT_NAME -> "globalTags"
      [] aspectName = OWNERSHIP_ASPECT_NAME -> "ownership"
      [] aspectName = SCHEMA_ASPECT_NAME -> "editableSchemaMetadata"

Upsert(cat, wu) ==
    [cat EXCEPT ![wu.id[1]][AspectField(wu.aspectName)] =
        IF wu.aspectName = SCHEMA_ASPECT_NAME
        THEN Some(wu.editableSchemaFieldInfo)
        ELSE Some(wu.aspect)]

\* The sink writes the oldest work unit it has not written yet.
SinkApply ==
    /\ graph
    /\ applied < Len(emitted)
    /\ catalog' = Upsert(catalog, emitted[applied + 1])
    /\ applied' = applied + 1
    /\ UNCHANGED <<should_overwrite, graph, csvPc, rowsRead, mapKeys,
                   editable_schema_metadata_map, flushIdx, emitted, report, calls,
                   consumed>>
    /\ UNCHANGED <<ldapVars, stripVars, extractVars>>

----------------------------------------------------------------------------
\* ldap.py. An attribute map (Dict[str, List[bytes]]) is a function over
\* AttrNames; a directory attribute that is present has at least one value,
\* so `k in attrs` is attrs[k] # <<>>. Values are strings, except the
\* member and owner values, which strip_ldap_info takes apart.

AttrNames ==
    {"objectClass", "sAMAccountName", "uid", "employeeNumber", "cn", "sn",
     "givenName", "displayName", "manager", "mail", "departmentNumber", "title",
     "countryCode", "owner", "uniqueMember", "name", "info"}

In(attrs, k) == attrs[k] # <<>>

NoAttrs == [a \in AttrNames |-> <<>>]

\* Lines 32-44, with the recipe's override of "urn".
user_attrs_map ==
    [urn |-> urn_attr, fullName |-> "cn", lastName |-> "sn", firstName |-> "givenName",
     displayName |-> "displayName", managerUrn |-> "manager", email |-> "mail",
     departmentId |-> "departmentNumber", title |-> "title",
     departmentName |-> "departmentNumber", countryCode |-> "countryCode"]

\* Lines 47-52.
group_attrs_map ==
    [urn |-> "cn", email |-> "mail", admins |-> "owner", members |-> "uniqueMember",
     displayName |-> "name", description |-> "info"]

\* str.lstrip(chars): drops every leading character that is in chars.
RECURSIVE LStrip(_, _)
LStrip(s, chars) ==
    IF s # <<>> /\ Head(s) \in chars THEN LStrip(Tail(s), chars) ELSE s

\* The characters of the argument "uid=" of lstrip in line 424.
UidEq == <<"u", "i", "d", "=">>

\* bytes.decode() of ASCII bytes keeps every character.
strip_ldap_info(input_clean) ==
    LStrip(Split(input_clean, ",")[1], Range(UidEq))

CorpUserUrn(name) == <<"urn:li:corpuser:", name>>

parse_from_attrs(attrs, filter_key) ==
    IF In(attrs, filter_key)
    THEN [n \in 1..Len(attrs[filter_key]) |->
             CorpUserUrn(strip_ldap_info(attrs[filter_key][n]))]
    ELSE <<>>

NoName == [exists |-> FALSE, value |-> ""]
Name(v) == [exists |-> TRUE, value |-> v]

GENERAL == "<general>"

\* guess_person_ldap: the identifier found, and the warnings reported.
guess_person_ldap(attrs) ==
    IF In(attrs, user_attrs_map.urn)
    THEN [ldap |-> Name(attrs[user_attrs_map.urn][1]), warnings |-> <<>>]
    ELSE IF In(attrs, "sAMAccountName")
    THEN [ldap |-> Name(attrs["sAMAccountName"][1]), warnings |-> <<GENERAL>>]
    ELSE IF In(attrs, "uid")
    THEN [ldap |-> Name(attrs["uid"][1]), warnings |-> <<GENERAL>>]
    ELSE [ldap |-> NoName, warnings |-> <<>>]

\* int(): the decimal strings among the values the model uses.
IsDecimal(v) == v \in {"42"}

\* f"urn:li:corpuser:{x}" formats None as the text None.
Format(name) == IF name.exists THEN name.value ELSE "None"

\* build_corp_user_mce with the test of lines 301-305 ahead of line 299.
build_corp_user_mce_checks_first(dn, attrs, manager_ldap) ==
    LET guess == guess_person_ldap(attrs)
        ldap_user == guess.ldap
        missing == ~In(attrs, user_attrs_map.firstName) \/ ~In(attrs, user_attrs_map.lastName)
        keyError == ~In(attrs, user_attrs_map.fullName) \/ missing
        valueError == /\ In(attrs, user_attrs_map.departmentId)
                      /\ ~IsDecimal(attrs[user_attrs_map.departmentId][1])
    IN  IF drop_missing_first_last_name /\ missing
        THEN [raised |-> FALSE, mce |-> <<>>, warnings |-> <<>>]
        ELSE IF keyError \/ valueError
        THEN [raised |-> TRUE, mce |-> <<>>, warnings |-> guess.warnings]
        ELSE [raised |-> FALSE,
              mce |-> <<[kind |-> "CorpUserSnapshot",
                         urn |-> CorpUserUrn(Format(ldap_user)),
                         ldap_user |-> ldap_user,
                         email |-> IF In(attrs, user_attrs_map.email)
                                   THEN Name(attrs[user_attrs_map.email][1])
                                   ELSE ldap_user,
                         fullName |-> attrs[user_attrs_map.fullName][1],
                         managerUrn |-> IF manager_ldap.exists /\ manager_ldap.value # ""
                                        THEN Some(CorpUserUrn(manager_ldap.value))
                                        ELSE None,
                         admins |-> <<>>, members |-> <<>>]>>,
              warnings |-> guess.warnings]

\* build_corp_user_mce: raised (KeyError of lines 306-308, ValueError of line
\* 321), else the event or None, with the warnings of line 299.
build_corp_user_mce(dn, attrs, manager_ldap) ==
    LET guess == guess_person_ldap(attrs)
        ldap_user == guess.ldap
        missing == ~In(attrs, user_attrs_map.firstName) \/ ~In(attrs, user_attrs_map.lastName)
        keyError == \/ ~In(attrs, user_attrs_map.fullName)
                    \/ ~In(attrs, user_attrs_map.firstName)
                    \/ ~In(attrs, user_attrs_map.lastName)
        valueError == /\ In(attrs, user_attrs_map.departmentId)
                      /\ ~IsDecimal(attrs[user_attrs_map.departmentId][1])
        email == IF In(attrs, user_attrs_map.email)
                 THEN Name(attrs[user_attrs_map.email][1]) ELSE ldap_user
        manager_urn == IF manager_ldap.exists /\ manager_ldap.value # ""
                       THEN Some(CorpUserUrn(manager_ldap.value)) ELSE None
    IN  IF drop_missing_first_last_name /\ missing
        THEN [raised |-> FALSE, mce |-> <<>>, warnings |-> guess.warnings]
        ELSE IF keyError \/ valueError
        THEN [raised |-> TRUE, mce |-> <<>>, warnings |-> guess.warnings]
        ELSE [raised |-> FALSE,
              mce |-> <<[kind |-> "CorpUserSnapshot",
                         urn |-> CorpUserUrn(Format(ldap_user)),
                         ldap_user |-> ldap_user,
                         email |-> email,
                         fullName |-> attrs[user_attrs_map.fullName][1],
                         managerUrn |-> manager_urn,
                         admins |-> <<>>, members |-> <<>>]>>,
              warnings |-> guess.warnings]

\* build_corp_group_mce: the event, or None.
build_corp_group_mce(attrs) ==
    LET cn == attrs[group_attrs_map.urn]
    IN  IF cn # <<>>
        THEN <<[kind |-> "CorpGroupSnapshot",
                urn |-> <<"urn:li:corpGroup:", cn[1]>>,
                ldap_user |-> NoName,
                email |-> IF In(attrs, group_attrs_map.email)
                          THEN Name(attrs[group_attrs_map.email][1]) ELSE Name(cn[1]),
                fullName |-> cn[1],
                managerUrn |-> None,
                admins |-> parse_from_attrs(attrs, group_attrs_map.admins),
                members |-> parse_from_attrs(attrs, group_attrs_map.members)]>>
        ELSE <<>>

\* What one iteration of the loop of line 213 did.
Handled(route, wu, dropped, warns, lookups, raised) ==
    [route |-> route, wu |-> wu, dropped |-> dropped, warnings |-> warns,
     lookups |-> lookups, raised |-> raised]

\* The answers of the server to a base-scoped manager search.
ManagerReply(kind, attrs) == [kind |-> kind, attrs |-> attrs]

\* handle_user without the try / except of lines 255-270 around the manager
\* search: the LDAPError leaves the generator.
handle_user_lookup_unguarded(dn, attrs, reply) ==
    LET lookup == In(attrs, user_attrs_map.managerUrn)
        found == lookup /\ reply.kind = "entry"
        mguess == IF found THEN guess_person_ldap(reply.attrs)
                  ELSE [ldap |-> NoName, warnings |-> <<>>]
        built == build_corp_user_mce(dn, attrs, mguess.ldap)
        wu == [n \in 1..Len(built.mce) |-> [id |-> dn, mce |-> built.mce[n]]]
    IN  IF lookup /\ reply.kind = "error"
        THEN Handled("user", <<>>, <<>>, <<>>, 1, TRUE)
        ELSE Handled("user", wu,
                     IF ~built.raised /\ built.mce = <<>> THEN <<dn>> ELSE <<>>,
                     mguess.warnings \o built.warnings,
                     IF lookup THEN 1 ELSE 0,
                     built.raised)

\* handle_user. reply is the server's answer to the manager search, if one
\* is issued.
handle_user(dn, attrs, reply) ==
    LET lookup == In(attrs, user_attrs_map.managerUrn)
        found == lookup /\ reply.kind = "entry"
        mguess == IF found THEN guess_person_ldap(reply.attrs)
                  ELSE [ldap |-> NoName, warnings |-> <<>>]
        manager_ldap == mguess.ldap
        mwarnings == IF lookup /\ reply.kind = "error" THEN <<dn>> ELSE mguess.warnings
        built == build_corp_user_mce(dn, attrs, manager_ldap)
        wu == [n \in 1..Len(built.mce) |-> [id |-> dn, mce |-> built.mce[n]]]
    IN  Handled("user", wu,
                IF ~built.raised /\ built.mce = <<>> THEN <<dn>> ELSE <<>>,
                mwarnings \o built.warnings,
                IF lookup THEN 1 ELSE 0,
                built.raised)

\* handle_group without the else branch of lines 290-291.
handle_group_unreported(dn, attrs) ==
    LET mce == build_corp_group_mce(attrs)
        wu == [n \in 1..Len(mce) |-> [id |-> dn, mce |-> mce[n]]]
    IN  Handled("group", wu, <<>>, <<>>, 0, FALSE)

\* handle_group
handle_group(dn, attrs) ==
    LET mce == build_corp_group_mce(attrs)
        wu == [n \in 1..Len(mce) |-> [id |-> dn, mce |-> mce[n]]]
    IN  Handled("group", wu, IF mce = <<>> THEN <<dn>> ELSE <<>>, <<>>, 0, FALSE)

\* A result without a distinguished name (a search reference).
NoDn == "None"

UserClasses == {"inetOrgPerson", "posixAccount", "person"}
GroupClasses == {"posixGroup", "organizationalUnit", "group"}

\* Lines 213-237: the body of the loop for one (dn, attrs) of rdata.
\* attrs["objectClass"] of an attribute map without that key is a KeyError.
HandleOf(dn, attrs, reply) ==
    IF dn = NoDn THEN Handled("none", <<>>, <<>>, <<>>, 0, FALSE)
    ELSE IF attrs = NoAttrs THEN Handled("empty", <<>>, <<>>, <<GENERAL>>, 0, FALSE)
    ELSE IF ~In(attrs, "objectClass") THEN Handled("raise", <<>>, <<>>, <<>>, 0, TRUE)
    ELSE IF Range(attrs["objectClass"]) \cap UserClasses # {}
    THEN handle_user(dn, attrs, reply)
    ELSE IF Range(attrs["objectClass"]) \cap GroupClasses # {}
    THEN handle_group(dn, attrs)
    ELSE Handled("dropped", <<>>, <<dn>>, <<>>, 0, FALSE)

----------------------------------------------------------------------------
\* The directory: the entries a search may return.

Attrs(given) == [a \in AttrNames |-> IF a \in DOMAIN given THEN given[a] ELSE <<>>]

Entry(dn, attrs) == [dn |-> dn, attrs |-> attrs]

MemberDave == <<"u", "i", "d", "=", "d", "a", ",", "o", "u", "=", "p">>
MemberAl == <<"u", "i", "d", "=", "a", "l">>

EntryPool ==
    { Entry("cn=alice", Attrs([objectClass |-> <<"top", "person">>,
                               sAMAccountName |-> <<"alice">>, cn |-> <<"Alice A">>,
                               sn |-> <<"A">>, givenName |-> <<"Alice">>,
                               manager |-> <<"cn=boss">>])),
      Entry("cn=bob", Attrs([objectClass |-> <<"inetOrgPerson">>, uid |-> <<"bob">>,
                             cn |-> <<"Bob B">>, sn |-> <<"B">>, givenName |-> <<"Bob">>,
                             mail |-> <<"bob@x">>, departmentNumber |-> <<"42">>])),
      Entry("cn=carol", Attrs([objectClass |-> <<"posixAccount">>,
                               sAMAccountName |-> <<"carol">>, cn |-> <<"Carol">>,
                               manager |-> <<"cn=boss">>])),
      Entry("cn=dan", Attrs([objectClass |-> <<"person">>, cn |-> <<"Dan D">>,
                             sn |-> <<"D">>, givenName |-> <<"Dan">>])),
      Entry("cn=eve", Attrs([objectClass |-> <<"person">>, sAMAccountName |-> <<"eve">>,
                             cn |-> <<"Eve E">>, sn |-> <<"E">>, givenName |-> <<"Eve">>,
                             departmentNumber |-> <<"R&D">>])),
      Entry("cn=devs", Attrs([objectClass |-> <<"posixGroup">>, cn |-> <<"devs">>,
                              uniqueMember |-> <<MemberDave, MemberAl>>])),
      Entry("ou=people", Attrs([objectClass |-> <<"top", "organizationalUnit">>,
                                info |-> <<"people">>])),
      Entry("cn=admins", Attrs([objectClass |-> <<"group">>, cn |-> <<"admins">>,
                                owner |-> <<MemberAl>>])),
      Entry("cn=printer", Attrs([objectClass |-> <<"top", "device">>,
                                 cn |-> <<"printer">>])),
      Entry("cn=both", Attrs([objectClass |-> <<"posixGroup", "person">>,
                              sAMAccountName |-> <<"both">>, cn |-> <<"Both">>,
                              sn |-> <<"B">>, givenName |-> <<"Both">>])),
      Entry("cn=hidden", NoAttrs),
      Entry("cn=bare", Attrs([cn |-> <<"bare">>])),
      Entry(NoDn, NoAttrs) }

\* Pages of at most n entries.
Pages(n) == UNION { [1..m -> EntryPool] : m \in 0..n }

ManagerReplies ==
    { ManagerReply("error", NoAttrs),
      ManagerReply("empty", NoAttrs),
      ManagerReply("entry", Attrs([objectClass |-> <<"person">>,
                                   sAMAccountName |-> <<"boss">>])),
      ManagerReply("entry", Attrs([objectClass |-> <<"person">>, cn |-> <<"Boss">>])) }

NoReply == ManagerReply("empty", NoAttrs)

\* Response controls. SimplePagedResultsControl.controlType is the paged-
\* results OID; any other control has another type.
PagedType == "1.2.840.113556.1.4.319"
OtherType == "1.3.6.1.4.1.42.2.27.8.5.1"

Control(controlType, cookie) == [controlType |-> controlType, cookie |-> cookie]

\* The cookie the server hands out with its k-th page, when more follow.
Cookie(k) == IF k = 1 THEN "c1" ELSE IF k = 2 THEN "c2" ELSE "c3"

\* create_controls: the cookie of a new control.
create_controls == ""

\* get_pctrls without the test on controlType.
get_pctrls_any_control(ctrls) == ctrls

get_pctrls(ctrls) == SelectSeq(ctrls, LAMBDA c : c.controlType = PagedType)

\* set_cookie returning True whatever the cookie.
set_cookie_always_true(lc_object, pctrls) ==
    LET cookie == pctrls[1].cookie
    IN  [lc |-> cookie, more |-> TRUE]

\* set_cookie without the assignment of line 82.
set_cookie_keeps_cursor(lc_object, pctrls) ==
    LET cookie == pctrls[1].cookie
    IN  [lc |-> lc_object, more |-> cookie # ""]

\* set_cookie: the new cookie of lc_object and the value returned.
set_cookie(lc_object, pctrls) ==
    LET cookie == pctrls[1].cookie
    IN  [lc |-> cookie, more |-> cookie # ""]

NoLast == [entry |-> Entry(NoDn, NoAttrs),
           outcome |-> Handled("start", <<>>, <<>>, <<>>, 0, FALSE),
           reply |-> NoReply]

Received == IF responses = <<>> THEN 0
            ELSE LET Sum[n \in 0..Len(responses)] ==
                         IF n = 0 THEN 0 ELSE Sum[n - 1] + responses[n].entries
                 IN  Sum[Len(responses)]

LdapInit ==
    /\ drop_missing_first_last_name \in BOOLEAN
    /\ urn_attr \in {"sAMAccountName", "employeeNumber"}
    /\ ldapPc = "PAGING"
    /\ lc_cookie = create_controls
    /\ rdata = <<>>
    /\ idx = 1
    /\ serverctrls = <<>>
    /\ searchCalls = 0
    /\ managerCalls = 0
    /\ managerSent = <<>>
    /\ failures = <<>>
    /\ warnings = <<>>
    /\ dropped_dns = <<>>
    /\ ldapEmitted = <<>>
    /\ sent = <<>>
    /\ responses = <<>>
    /\ last = NoLast
    /\ dispatched = 0

Response(error, ctrls, entries) == [error |-> error, ctrls |-> ctrls, entries |-> entries]

\* The failed search without the except clause of lines 207-211: the
\* LDAPError leaves the generator.
SearchFailsUncaught ==
    /\ ldapPc = "PAGING"
    /\ searchCalls < MaxPages
    /\ searchCalls' = searchCalls + 1
    /\ sent' = Append(sent, lc_cookie)
    /\ responses' = Append(responses, Response(TRUE, <<>>, 0))
    /\ ldapPc' = "RAISED"
    /\ UNCHANGED <<drop_missing_first_last_name, urn_attr, lc_cookie, rdata, idx,
                   serverctrls, managerCalls, managerSent, failures, warnings,
                   dropped_dns, ldapEmitted, last, dispatched>>
    /\ UNCHANGED <<csvVars, stripVars, extractVars>>

\* Lines 198-211: the loop is entered and the subtree search fails.
SearchFails ==
    /\ ldapPc = "PAGING"
    /\ searchCalls < MaxPages
    /\ searchCalls' = searchCalls + 1
    /\ sent' = Append(sent, lc_cookie)
    /\ responses' = Append(responses, Response(TRUE, <<>>, 0))
    /\ failures' = Append(failures, "ldap-control")
    /\ ldapPc' = "DONE"
    /\ UNCHANGED <<drop_missing_first_last_name, urn_attr, lc_cookie, rdata, idx,
                   serverctrls, managerCalls, managerSent, warnings, dropped_dns, ldapEmitted,
                   last, dispatched>>
    /\ UNCHANGED <<csvVars, stripVars, extractVars>>

\* Lines 198-206: the loop is entered and the subtree search is answered.
\* The server hands out a non-empty cookie only while pages remain.
Search ==
    /\ ldapPc = "PAGING"
    /\ searchCalls < MaxPages
    /\ \E page \in Pages(IF MaxEntries - Received < MaxPageSize
                         THEN MaxEntries - Received ELSE MaxPageSize),
          ctrls \in { <<>>,
                      <<Control(OtherType, "")>>,
                      <<Control(PagedType, "")>>,
                      <<Control(OtherType, ""), Control(PagedType, "")>> }
                    \cup (IF searchCalls + 1 < MaxPages
                          THEN { <<Control(PagedType, Cookie(searchCalls + 1))>> }
                          ELSE {}) :
        /\ rdata' = page
        /\ serverctrls' = ctrls
        /\ responses' = Append(responses, Response(FALSE, ctrls, Len(page)))
    /\ searchCalls' = searchCalls + 1
    /\ sent' = Append(sent, lc_cookie)
    /\ idx' = 1
    /\ ldapPc' = "ENTRIES"
    /\ UNCHANGED <<drop_missing_first_last_name, urn_attr, lc_cookie, managerCalls,
                   managerSent, failures, warnings, dropped_dns, ldapEmitted, last,
                   dispatched>>
    /\ UNCHANGED <<csvVars, stripVars, extractVars>>

\* Lines 213-237: one iteration of the loop over rdata, up to the yield of
\* its work unit, or the exception that ends the generator.
HandleEntry ==
    /\ ldapPc = "ENTRIES"
    /\ idx <= Len(rdata)
    /\ \E reply \in (IF In(rdata[idx].attrs, user_attrs_map.managerUrn)
                     THEN ManagerReplies ELSE {NoReply}) :
        LET h == HandleOf(rdata[idx].dn, rdata[idx].attrs, reply)
        IN  /\ last' = [entry |-> rdata[idx], outcome |-> h, reply |-> reply]
            /\ ldapEmitted' = ldapEmitted \o h.wu
            /\ dropped_dns' = dropped_dns \o h.dropped
            /\ warnings' = warnings \o h.warnings
            /\ managerCalls' = managerCalls + h.lookups
            /\ managerSent' = IF h.lookups = 1
                               THEN Append(managerSent, [page |-> searchCalls,
                                                         cookie |-> lc_cookie])
                               ELSE managerSent
            /\ ldapPc' = IF h.raised THEN "RAISED" ELSE "ENTRIES"
    /\ idx' = idx + 1
    /\ dispatched' = dispatched + 1
    /\ UNCHANGED <<drop_missing_first_last_name, urn_attr, lc_cookie, rdata,
                   serverctrls, searchCalls, failures, sent, responses>>
    /\ UNCHANGED <<csvVars, stripVars, extractVars>>

\* Lines 239-246: after the last entry of the page.
EndOfPage ==
    /\ ldapPc = "ENTRIES"
    /\ idx > Len(rdata)
    /\ LET pctrls == get_pctrls(serverctrls)
       IN  IF pctrls = <<>>
           THEN /\ failures' = Append(failures, "ldap-control")
                /\ ldapPc' = "DONE"
                /\ UNCHANGED lc_cookie
           ELSE /\ lc_cookie' = set_cookie(lc_cookie, pctrls).lc
                /\ ldapPc' = IF set_cookie(lc_cookie, pctrls).more THEN "PAGING" ELSE "DONE"
                /\ UNCHANGED failures
    /\ UNCHANGED <<drop_missing_first_last_name, urn_attr, rdata, idx, serverctrls,
                   searchCalls, managerCalls, managerSent, warnings, dropped_dns, ldapEmitted,
                   sent, responses, last, dispatched>>
    /\ UNCHANGED <<csvVars, stripVars, extractVars>>

----------------------------------------------------------------------------
\* strip_ldap_info on its own: the values of a member or owner attribute.

NameChars == {"u", "i", "d", "=", "a"}

Names == UNION { [1..m -> NameChars] : m \in 0..MaxNameLen }

Suffixes == { <<>>, <<",", "o", "u", "=", "p">> }

StripInputs ==
    { UidEq \o n \o x : n \in Names, x \in Suffixes } \cup { n \o x : n \in Names, x \in Suffixes }

NotCalledYet == <<"?">>

StripInit ==
    /\ strip_input \in StripInputs
    /\ stripped = NotCalledYet

CallStrip ==
    /\ stripped = NotCalledYet
    /\ stripped' = strip_ldap_info(strip_input)
    /\ UNCHANGED strip_input
    /\ UNCHANGED <<csvVars, ldapVars, extractVars>>

----------------------------------------------------------------------------
\* The Association Extractor on its own: one cell, taken as one of the three
\* columns of a resource row.

CellChars == {"[", "]", ",", "a", "b"}

Cells == UNION { [1..m -> CellChars] : m \in 0..MaxCellLen }

Columns == {"glossary_terms", "tags", "owners"}

ExtractInit ==
    /\ cell \in Cells
    /\ extract_kind = "none"
    /\ extracted = <<>>

CallExtract ==
    /\ extract_kind = "none"
    /\ \E column \in Columns :
        LET row == [Row(Dataset1, NoSubresource, CellEmpty, CellEmpty, CellEmpty)
                       EXCEPT ![column] = cell]
        IN  /\ extract_kind' = column
            /\ extracted' =
                  CASE column = "glossary_terms" -> maybe_extract_glossary_terms(row)
                    [] column = "tags" -> maybe_extract_tags(row)
                    [] column = "owners" -> maybe_extract_owners(row, TRUE)
    /\ UNCHANGED cell
    /\ UNCHANGED <<csvVars, ldapVars, stripVars>>

----------------------------------------------------------------------------
\* The specifications: each source on its own, the others at rest.

CsvIdle ==
    /\ should_overwrite = FALSE
    /\ graph = FALSE
    /\ catalog = CatalogEmpty
    /\ csvPc = "done"
    /\ rowsRead = 0
    /\ mapKeys = <<>>
    /\ editable_schema_metadata_map = [e \in Entities |-> <<>>]
    /\ flushIdx = 1
    /\ emitted = <<>>
    /\ report = [num_glossary_term_workunits_produced |-> 0,
                 num_tag_workunits_produced |-> 0,
                 num_owners_workunits_produced |-> 0,
                 num_editable_schema_metadata_workunits_produced |-> 0,
                 workunits_produced |-> 0]
    /\ calls = <<>>
    /\ consumed = <<>>
    /\ applied = 0

LdapIdle ==
    /\ drop_missing_first_last_name = TRUE
    /\ urn_attr = "sAMAccountName"
    /\ ldapPc = "DONE"
    /\ lc_cookie = create_controls
    /\ rdata = <<>>
    /\ idx = 1
    /\ serverctrls = <<>>
    /\ searchCalls = 0
    /\ managerCalls = 0
    /\ managerSent = <<>>
    /\ failures = <<>>
    /\ warnings = <<>>
    /\ dropped_dns = <<>>
    /\ ldapEmitted = <<>>
    /\ sent = <<>>
    /\ responses = <<>>
    /\ last = NoLast
    /\ dispatched = 0

StripIdle ==
    /\ strip_input = <<>>
    /\ stripped = <<>>

ExtractIdle ==
    /\ cell = <<>>
    /\ extract_kind = "none"
    /\ extracted = <<>>

Init == CsvInit /\ LdapIdle /\ StripIdle /\ ExtractIdle

Next == ReadRow \/ EndOfInput \/ FlushEntity

Spec == Init /\ [][Next]_vars

InitLdap == LdapInit /\ CsvIdle /\ StripIdle /\ ExtractIdle

NextLdap == SearchFails \/ Search \/ HandleEntry \/ EndOfPage

SpecLdap == InitLdap /\ [][NextLdap]_vars

InitStrip == StripInit /\ CsvIdle /\ LdapIdle /\ ExtractIdle

NextStrip == CallStrip

SpecStrip == InitStrip /\ [][NextStrip]_vars

InitExtract == ExtractInit /\ CsvIdle /\ LdapIdle /\ StripIdle

NextExtract == CallExtract

SpecExtract == InitExtract /\ [][NextExtract]_vars

\* The enrichment in append mode against a live catalog that the sink
\* writes to while the file is being read.
InitSink == Init /\ ~should_overwrite /\ graph

NextSink == ReadRow \/ EndOfInput \/ FlushEntity \/ SinkApply

SpecSink == InitSink /\ [][NextSink]_vars

----------------------------------------------------------------------------
\* Properties of the tabular enrichment source (specification Spec).

EntityAspects == {GLOSSARY_TERMS_ASPECT_NAME, TAGS_ASPECT_NAME, OWNERSHIP_ASPECT_NAME}

\* The state ctx.graph holds for an entity-level aspect of an entity.
Existing(entity_urn, aspectName) ==
    IF aspectName = GLOSSARY_TERMS_ASPECT_NAME THEN catalog[entity_urn].glossaryTerms
    ELSE IF aspectName = TAGS_ASPECT_NAME THEN catalog[entity_urn].globalTags
    ELSE catalog[entity_urn].ownership

\* The work units returned by the reconciler invocations, in order.
RECURSIVE Returned(_)
Returned(cs) == IF cs = <<>> THEN <<>> ELSE Head(cs).wu \o Returned(Tail(cs))

\* The number of elements of a sequence that satisfy a test.
CountIn(seq, Test(_)) == Cardinality({n \in 1..Len(seq) : Test(seq[n])})

NoRepeats(seq) == \A m, n \in 1..Len(seq) : seq[m] = seq[n] => m = n

\* An entity-level reconciler invocation in append mode that found a state.
AppendsTo(c) ==
    /\ c.aspectName \in EntityAspects
    /\ ~should_overwrite /\ graph
    /\ Existing(c.entity_urn, c.aspectName).exists

\* C1. Entity-level append is additive and order-preserving: in append mode
\* with an existing state E, whenever the new list N holds an identifier that
\* is not in E, the reconciler returns one work unit, which is yielded, whose
\* list is E unchanged and in order, followed by exactly the elements of N
\* that are not in E, in N's order; as a set it is E \cup N.
C1_AppendAdditiveOrdered ==
    /\ emitted = Returned(calls)
    /\ \A n \in 1..Len(calls) :
        LET c == calls[n]
            E == Existing(c.entity_urn, c.aspectName).items
            N == c.new
        IN  (AppendsTo(c) /\ ~(Range(N) \subseteq Range(E))) =>
                /\ Len(c.wu) = 1
                /\ c.wu[1].id = <<c.entity_urn, c.aspectName>>
                /\ Len(c.wu[1].aspect) >= Len(E)
                /\ SubSeq(c.wu[1].aspect, 1, Len(E)) = E
                /\ SubSeq(c.wu[1].aspect, Len(E) + 1, Len(c.wu[1].aspect))
                      = SelectSeq(N, LAMBDA a : a \notin Range(E))
                /\ Range(c.wu[1].aspect) = Range(E) \cup Range(N)

\* C1 witness: an append onto a non-empty state where N holds both an
\* identifier that is already there and one that is new.
C1_Witness ==
    \E n \in 1..Len(calls) :
        LET E == Existing(calls[n].entity_urn, calls[n].aspectName).items
        IN  /\ AppendsTo(calls[n])
            /\ E # <<>>
            /\ Range(calls[n].new) \cap Range(E) # {}
            /\ Range(calls[n].new) \ Range(E) # {}
            /\ calls[n].wu # <<>>
            /\ calls[n].wu[1] \in Range(emitted)

\* C2. Uniqueness after merge: no entity-level work unit that was yielded
\* (fresh state or append) holds an association identifier twice.
C2_UniqueAfterMerge ==
    \A n \in 1..Len(emitted) :
        emitted[n].aspectName \in EntityAspects => NoRepeats(emitted[n].aspect)

\* C3. No-op suppression: in append mode, when every identifier of the
\* non-empty new list is already in the fetched state, the reconciler returns
\* no work unit; only returned work units are yielded, and each per-kind
\* counter counts exactly the work units returned for its kind.
C3_NoOpSuppression ==
    /\ \A n \in 1..Len(calls) :
        LET c == calls[n]
        IN  ( /\ AppendsTo(c)
              /\ c.new # <<>>
              /\ Range(c.new) \subseteq Range(Existing(c.entity_urn, c.aspectName).items) )
            => c.wu = <<>>
    /\ emitted = Returned(calls)
    /\ report.num_glossary_term_workunits_produced
          = CountIn(emitted, LAMBDA w : w.aspectName = GLOSSARY_TERMS_ASPECT_NAME)
    /\ report.num_tag_workunits_produced
          = CountIn(emitted, LAMBDA w : w.aspectName = TAGS_ASPECT_NAME)
    /\ report.num_owners_workunits_produced
          = CountIn(emitted, LAMBDA w : w.aspectName = OWNERSHIP_ASPECT_NAME)

\* C3 witness: a suppressed append next to one that was written.
C3_Witness ==
    /\ \E n \in 1..Len(calls) :
        /\ AppendsTo(calls[n])
        /\ calls[n].new # <<>>
        /\ Range(calls[n].new)
              \subseteq Range(Existing(calls[n].entity_urn, calls[n].aspectName).items)
        /\ calls[n].fetched
        /\ calls[n].wu = <<>>
    /\ \E n \in 1..Len(calls) : calls[n].aspectName \in EntityAspects /\ calls[n].wu # <<>>

\* The subresource rows of the input that name an entity.
SubRowsOf(entity_urn) ==
    SelectSeq(consumed, LAMBDA r : r.resource = entity_urn /\ r.subresource # NoSubresource)

CarriesAssociations(r) == r.glossary_terms # <<>> \/ r.tags # <<>>

\* The editableSchemaMetadata work units yielded for an entity.
SchemaWrites(entity_urn) ==
    CountIn(emitted, LAMBDA w : w.id = <<entity_urn, SCHEMA_ASPECT_NAME>>)

Referenced(entity_urn) ==
    \E n \in 1..Len(consumed) :
        /\ consumed[n].resource = entity_urn
        /\ consumed[n].subresource # NoSubresource
        /\ CarriesAssociations(consumed[n])

\* C4 as stated. Subresource single-write: at the end of the run, every
\* entity referenced by subresource rows of which one carries a term or a
\* tag has exactly one editableSchemaMetadata work unit, whatever the
\* overwrite mode, the catalog connection and the catalog's prior state.
C4_ExactlyOneSchemaWrite ==
    csvPc = "done" =>
        \A e \in Entities : Referenced(e) => SchemaWrites(e) = 1

\* C4 as amended. At the end of the run, a dataset referenced by subresource
\* rows of which one carries a term or a tag has exactly one
\* editableSchemaMetadata work unit when overwrite mode is on, or when the
\* catalog is connected and holds no prior editableSchemaMetadata for it; it
\* has none in append mode without a catalog connection; an entity that is
\* not a dataset has none.
C4_ExactlyOneWhenStartingFresh ==
    csvPc = "done" =>
        \A e \in Entities :
            Referenced(e) =>
                /\ ( /\ EntityType(e) = DATASET_ENTITY_TYPE
                     /\ \/ should_overwrite
                        \/ graph /\ ~catalog[e].editableSchemaMetadata.exists )
                   => SchemaWrites(e) = 1
                /\ (~should_overwrite /\ ~graph) => SchemaWrites(e) = 0
                /\ EntityType(e) # DATASET_ENTITY_TYPE => SchemaWrites(e) = 0

\* C4 witness: a dataset with two subresource rows, flushed from a fresh
\* state with no catalog behind it, and written once.
C4_Witness ==
    /\ csvPc = "done"
    /\ should_overwrite /\ ~graph
    /\ \E e \in Entities :
        /\ Referenced(e)
        /\ Len(SubRowsOf(e)) >= 2
        /\ SchemaWrites(e) = 1

\* C5. At most one schema write per entity: at every point of the run, no
\* entity has more than one work unit with the id of its
\* editableSchemaMetadata, however many rows reference it and however they
\* are interleaved with the rows of other entities.
C5_AtMostOneSchemaWrite ==
    \A e \in Entities : SchemaWrites(e) <= 1

\* C5 witness: rows of one dataset with a row of another dataset between
\* them, and one schema work unit for each.
C5_Witness ==
    /\ csvPc = "done"
    /\ Len(consumed) = 3
    /\ consumed[1].resource = Dataset1 /\ consumed[1].subresource # NoSubresource
    /\ consumed[2].resource = Dataset2 /\ consumed[2].subresource # NoSubresource
    /\ consumed[3].resource = Dataset1 /\ consumed[3].subresource # NoSubresource
    /\ Len(editable_schema_metadata_map[Dataset1]) = 2
    /\ SchemaWrites(Dataset1) = 1
    /\ SchemaWrites(Dataset2) = 1

\* C10. Resource-row owner exclusivity: every invocation of the owners
\* reconciler (and so every ownership fetch and every ownership work unit)
\* is for a row of the input with an empty subresource, and its new owners
\* are the tokens of that row's owners cell; only what the reconcilers return
\* is yielded.
C10_OwnersOnlyFromResourceRows ==
    /\ emitted = Returned(calls)
    /\ \A n \in 1..Len(calls) :
        calls[n].aspectName = OWNERSHIP_ASPECT_NAME =>
            /\ calls[n].subresource = NoSubresource
            /\ \E m \in 1..Len(consumed) :
                /\ consumed[m].resource = calls[n].entity_urn
                /\ consumed[m].subresource = NoSubresource
                /\ consumed[m].owners # <<>>
                /\ calls[n].new = Split(sanitize_array_string(consumed[m].owners), ",")

\* C10 witness: a subresource row whose owners cell is populated has been
\* read, and an ownership work unit of a resource row has been yielded.
C10_Witness ==
    /\ \E m \in 1..Len(consumed) :
        /\ consumed[m].resource # ""
        /\ consumed[m].subresource # NoSubresource
        /\ consumed[m].owners # <<>>
    /\ \E n \in 1..Len(emitted) : emitted[n].aspectName = OWNERSHIP_ASPECT_NAME

----------------------------------------------------------------------------
\* Properties of the directory crawl (specification SpecLdap).

\* Whether a response carries a paged-results control, and its cursor.
HasPaged(r) == \E i \in 1..Len(r.ctrls) : r.ctrls[i].controlType = PagedType

CursorOf(r) ==
    LET i == CHOOSE i \in 1..Len(r.ctrls) :
                 /\ r.ctrls[i].controlType = PagedType
                 /\ \A j \in 1..(i - 1) : r.ctrls[j].controlType # PagedType
    IN  r.ctrls[i].cookie

\* The first n subtree searches were answered with a paging control whose
\* cursor is non-empty on the first n-1 answers and empty on the n-th.
PagesEndAt(n) ==
    /\ n \in 1..Len(responses)
    /\ \A k \in 1..n : ~responses[k].error /\ HasPaged(responses[k])
    /\ \A k \in 1..(n - 1) : CursorOf(responses[k]) # ""
    /\ CursorOf(responses[n]) = ""

\* C6 as stated. Paging termination: when n successive subtree searches are
\* answered with cursors that are non-empty n-1 times and then empty, the
\* driver issues exactly n subtree searches and, once the n-th page has been
\* iterated, is DONE with the entries of all n pages dispatched.
C6_PagingTermination ==
    \A n \in 1..Len(responses) :
        PagesEndAt(n) =>
            /\ Len(responses) = n
            /\ searchCalls = n
            /\ ldapPc # "PAGING"
            /\ ldapPc # "ENTRIES" => (ldapPc = "DONE" /\ dispatched = Received)

\* C6 as amended. With such answers the driver issues exactly n subtree
\* searches and never another one; it ends DONE with the entries of all n
\* pages dispatched, unless the handling of an entry raises (no objectClass,
\* full-name or required name attribute, a department number that is not a
\* number), which ends the iteration at that entry.
C6_PagingTerminationUnlessRaised ==
    \A n \in 1..Len(responses) :
        PagesEndAt(n) =>
            /\ Len(responses) = n
            /\ searchCalls = n
            /\ sent[1] = ""
            /\ \A k \in 1..(n - 1) : sent[k + 1] = CursorOf(responses[k])
            /\ ldapPc \in {"ENTRIES", "DONE", "RAISED"}
            /\ ldapPc = "ENTRIES" => idx <= Len(rdata) + 1
            /\ ldapPc = "DONE" => (dispatched = Received /\ failures = <<>>)
            /\ ldapPc = "RAISED" => (last.outcome.raised /\ dispatched <= Received)

\* C6 witness: three pages with the cursors c1, c2 and empty, three searches,
\* DONE, every entry dispatched.
C6_Witness ==
    /\ PagesEndAt(3)
    /\ CursorOf(responses[1]) = "c1" /\ CursorOf(responses[2]) = "c2"
    /\ sent = <<"", "c1", "c2">>
    /\ searchCalls = 3
    /\ ldapPc = "DONE"
    /\ Received = MaxEntries
    /\ dispatched = Received

\* C7 as stated. Missing paging control: when an answer carries no
\* paged-results control, no further subtree search is issued, no failure is
\* recorded while the entries of that answer are being dispatched, and then
\* the driver is DONE with exactly one failure recorded and all entries
\* dispatched.
C7_MissingControlFailure ==
    \A k \in 1..Len(responses) :
        (~responses[k].error /\ ~HasPaged(responses[k])) =>
            /\ Len(responses) = k
            /\ searchCalls = k
            /\ ldapPc # "PAGING"
            /\ ldapPc = "ENTRIES" => failures = <<>>
            /\ ldapPc # "ENTRIES" =>
                  /\ ldapPc = "DONE"
                  /\ failures = <<"ldap-control">>
                  /\ dispatched = Received

\* C7 as amended. As stated, unless the handling of an entry of that answer
\* raises: the iteration then ends at that entry with no failure recorded,
\* and still no further subtree search.
C7_MissingControlFailureUnlessRaised ==
    \A k \in 1..Len(responses) :
        (~responses[k].error /\ ~HasPaged(responses[k])) =>
            /\ Len(responses) = k
            /\ searchCalls = k
            /\ ldapPc \in {"ENTRIES", "DONE", "RAISED"}
            /\ ldapPc = "ENTRIES" => failures = <<>>
            /\ ldapPc = "DONE" =>
                  (failures = <<"ldap-control">> /\ dispatched = Received)
            /\ ldapPc = "RAISED" => (last.outcome.raised /\ failures = <<>>)

\* C7 witness: the second answer has entries and a control of another type
\* only; its entries were dispatched and one failure was recorded.
C7_Witness ==
    /\ Len(responses) = 2
    /\ ~responses[2].error /\ ~HasPaged(responses[2])
    /\ responses[2].ctrls # <<>>
    /\ responses[2].entries >= 1
    /\ ldapPc = "DONE"
    /\ failures = <<"ldap-control">>
    /\ dispatched = Received

\* The objectClass values of an entry.
ClassesOf(e) == Range(e.attrs["objectClass"])

\* The latest entry taken from a page had a DN and a non-empty attribute map.
Classified == last.outcome.route # "start" /\ last.entry.dn # NoDn /\ last.entry.attrs # NoAttrs

RecordedAsDropped ==
    /\ last.outcome.route = "dropped"
    /\ last.outcome.wu = <<>>
    /\ last.outcome.dropped = <<last.entry.dn>>
    /\ dropped_dns # <<>> /\ dropped_dns[Len(dropped_dns)] = last.entry.dn
    /\ ~last.outcome.raised

\* C8. Classifier exhaustiveness: an entry with a user class goes
\* to user handling, an entry with a group class goes to group handling, and
\* every other entry, whatever its attributes, is dropped, recorded, and the
\* crawl goes on.
C8_ClassifierExhaustive ==
    Classified =>
        /\ ClassesOf(last.entry) \cap UserClasses # {} => last.outcome.route = "user"
        /\ ClassesOf(last.entry) \cap GroupClasses # {} => last.outcome.route = "group"
        /\ ClassesOf(last.entry) \cap (UserClasses \cup GroupClasses) = {}
              => RecordedAsDropped

----------------------------------------------------------------------------
\* Properties of strip_ldap_info (specification SpecStrip).

\* C9. Distinguished-name reduction: the value returned is the first
\* comma-separated component of the argument without a leading "uid=", and
\* the component itself when it does not start with "uid=".
C9_StripsUidPrefixOnly ==
    stripped # NotCalledYet =>
        LET first == Split(strip_input, ",")[1]
        IN  stripped = IF StartsWith(first, UidEq)
                       THEN SubSeq(first, Len(UidEq) + 1, Len(first))
                       ELSE first

----------------------------------------------------------------------------
\* Properties of the tabular enrichment, continued (specification Spec).

\* What a run that overwrites writes, computed from the rows alone: the
\* cells of a resource row, as extracted.
OverwriteUnit(row, aspectName, new) ==
    IF new = <<>> THEN <<>>
    ELSE <<WorkUnit(row.resource, EntityType(row.resource), aspectName, new, <<>>)>>

OverwriteRowUnits(row) ==
    IF row.resource = "" \/ row.subresource # NoSubresource THEN <<>>
    ELSE OverwriteUnit(row, GLOSSARY_TERMS_ASPECT_NAME, maybe_extract_glossary_terms(row))
         \o OverwriteUnit(row, TAGS_ASPECT_NAME, maybe_extract_tags(row))
         \o OverwriteUnit(row, OWNERSHIP_ASPECT_NAME, maybe_extract_owners(row, TRUE))

RECURSIVE OverwriteEntityUnits(_)
OverwriteEntityUnits(rows) ==
    IF rows = <<>> THEN <<>>
    ELSE OverwriteRowUnits(Head(rows)) \o OverwriteEntityUnits(Tail(rows))

\* The subresource rows of the file that name a dataset, per entity, in
\* input order.
IsDatasetSubRow(r) ==
    /\ r.resource # ""
    /\ r.subresource # NoSubresource
    /\ EntityType(r.resource) = DATASET_ENTITY_TYPE

InputSubRows(entity_urn) ==
    LET sel == SelectSeq(consumed, LAMBDA r : IsDatasetSubRow(r) /\ r.resource = entity_urn)
    IN  [i \in 1..Len(sel) |->
            SubResourceRow(entity_urn, sel[i].subresource,
                           maybe_extract_glossary_terms(sel[i]),
                           maybe_extract_tags(sel[i]))]

\* The datasets with subresource rows, in order of first appearance.
RECURSIVE FirstSeen(_, _)
FirstSeen(rows, acc) ==
    IF rows = <<>> THEN acc
    ELSE FirstSeen(Tail(rows),
                   IF IsDatasetSubRow(Head(rows)) /\ Head(rows).resource \notin Range(acc)
                   THEN Append(acc, Head(rows).resource) ELSE acc)

\* The fold of an entity's rows from the empty field-info list.
FoldFromEmpty(rows) ==
    LET end == FoldRows(rows, 1, [infos |-> <<>>, heap |-> RowLists(rows),
                                  needs_write |-> TRUE, field_match |-> FALSE])
    IN  Resolve(end.infos, end.heap)

OverwriteSchemaUnits(n) ==
    LET keys == FirstSeen(consumed, <<>>)
    IN  [i \in 1..n |->
            WorkUnit(keys[i], DATASET_ENTITY_TYPE, SCHEMA_ASPECT_NAME, <<>>,
                     FoldFromEmpty(InputSubRows(keys[i])))]

Flushed == IF csvPc = "rows" THEN 0 ELSE flushIdx - 1

\* C11. Idempotent overwrite: in overwrite mode the catalog is never read and
\* the emitted work units (ids and association content) are a function of
\* the rows read alone, whatever the catalog holds; a second run on the same
\* rows therefore writes the same aspect states.
C11_OverwriteIgnoresCatalog ==
    should_overwrite =>
        /\ \A i \in 1..Len(calls) : ~calls[i].fetched /\ ~calls[i].prior.exists
        /\ emitted = OverwriteEntityUnits(consumed) \o OverwriteSchemaUnits(Flushed)

\* C11 witness: an overwriting run against a catalog that already holds terms,
\* owners and schema metadata for the dataset has written entity-level and
\* schema work units for it.
C11_Witness ==
    /\ should_overwrite /\ graph /\ catalog = CatalogTwo
    /\ csvPc = "done"
    /\ \E i \in 1..Len(emitted) : emitted[i].id = <<Dataset1, OWNERSHIP_ASPECT_NAME>>
    /\ \E i \in 1..Len(emitted) :
          /\ emitted[i].id = <<Dataset1, SCHEMA_ASPECT_NAME>>
          /\ emitted[i].editableSchemaFieldInfo # <<>>

----------------------------------------------------------------------------
\* Properties of the Association Extractor (specification SpecExtract).

\* The cell without one leading "[" and without one trailing "]".
Unbracketed(c) ==
    LET a == IF c # <<>> /\ Head(c) = "[" THEN Tail(c) ELSE c
    IN  IF a # <<>> /\ a[Len(a)] = "]" THEN SubSeq(a, 1, Len(a) - 1) ELSE a

\* The tokens put together again, the delimiter between them.
RECURSIVE Joined(_)
Joined(tokens) ==
    IF Len(tokens) = 1 THEN tokens[1]
    ELSE tokens[1] \o <<array_delimiter>> \o Joined(Tail(tokens))

\* C12. Array sanitization and extraction: an empty cell yields the empty
\* sequence; a non-empty cell loses at most one leading "[" and one trailing
\* "]", and the rest is cut at every delimiter: one association per token, in
\* token order, the token unchanged as its identifier.
C12_ExtractsTokensInOrder ==
    extract_kind # "none" =>
        IF cell = <<>> THEN extracted = <<>>
        ELSE /\ Len(extracted) >= 1
             /\ \A i \in 1..Len(extracted) : array_delimiter \notin Range(extracted[i])
             /\ Joined(extracted) = Unbracketed(cell)

\* C12 witness: the cell [a,b] taken as tags gives a then b.
C12_Witness ==
    /\ cell = <<"[", "a", ",", "b", "]">>
    /\ extract_kind = "tags"
    /\ extracted = <<<<"a">>, <<"b">>>>

----------------------------------------------------------------------------
\* Properties of the directory crawl, continued (specification SpecLdap).

\* The latest iteration took an entry with a DN.
Taken == last.outcome.route # "start" /\ last.entry.dn # NoDn

HasUserClass(e) == ClassesOf(e) \cap UserClasses # {}
HasGroupClass(e) == ClassesOf(e) \cap GroupClasses # {}

\* The four reasons for dropping an entry.
EmptyAttributes(e) == e.attrs = NoAttrs

NoMatchingClass(e) == e.attrs # NoAttrs /\ ~HasUserClass(e) /\ ~HasGroupClass(e)

MissingRequiredName(e) ==
    /\ HasUserClass(e)
    /\ drop_missing_first_last_name
    /\ (e.attrs["givenName"] = <<>> \/ e.attrs["sn"] = <<>>)

MissingGroupIdentifier(e) ==
    HasGroupClass(e) /\ ~HasUserClass(e) /\ e.attrs["cn"] = <<>>

\* The latest entry is in the dropped list, gave no work unit, and the
\* iteration went on.
DroppedAndRecorded ==
    /\ last.outcome.dropped = <<last.entry.dn>>
    /\ dropped_dns # <<>> /\ dropped_dns[Len(dropped_dns)] = last.entry.dn
    /\ last.outcome.wu = <<>>
    /\ ~last.outcome.raised
    /\ ldapPc # "RAISED"

\* C13 as stated. Dropped entities are recorded and never fatal: an entry
\* dropped for no matching object class, an empty attribute map, a missing
\* required first or last name or a missing group identifier has its DN
\* appended to the dropped list, gives no work unit, and the crawl goes on.
C13_DroppedRecorded ==
    ( /\ Taken
      /\ \/ NoMatchingClass(last.entry)
         \/ EmptyAttributes(last.entry)
         \/ MissingRequiredName(last.entry)
         \/ MissingGroupIdentifier(last.entry) )
        => DroppedAndRecorded

\* C13 as amended. An entry whose objectClass is present and names neither a
\* user nor a group class, a user entry without a required first or last
\* name, and a group entry without its identifier have their DN appended to
\* the dropped list, give no work unit, and the crawl goes on. An entry with
\* an empty attribute map is skipped with one warning under <general>: no
\* work unit, nothing appended to the dropped list, and the crawl goes on.
C13_DroppedRecordedExceptEmpty ==
    Taken =>
        /\ ( \/ (NoMatchingClass(last.entry) /\ ClassesOf(last.entry) # {})
             \/ MissingRequiredName(last.entry)
             \/ MissingGroupIdentifier(last.entry) )
              => DroppedAndRecorded
        /\ EmptyAttributes(last.entry) =>
              /\ last.outcome.dropped = <<>>
              /\ last.outcome.warnings = <<GENERAL>>
              /\ last.outcome.wu = <<>>
              /\ ~last.outcome.raised
              /\ ldapPc # "RAISED"

\* C13 witness: a group entry without cn was dropped and recorded, then an
\* entry with an empty attribute map was skipped with a warning.
C13_Witness ==
    /\ Taken
    /\ last.entry.dn = "cn=hidden" /\ EmptyAttributes(last.entry)
    /\ dropped_dns = <<"ou=people">>
    /\ warnings = <<GENERAL>>
    /\ ldapEmitted = <<>>
    /\ dispatched = 2

\* The latest entry was handled as a user, has a manager attribute, and the
\* base-scoped search for the manager failed with a protocol error.
ManagerLookupFailed ==
    /\ Taken
    /\ last.outcome.route = "user"
    /\ last.entry.attrs["manager"] # <<>>
    /\ last.reply.kind = "error"

\* The entry has what the build of a user needs.
Buildable(e) ==
    /\ e.attrs["cn"] # <<>> /\ e.attrs["sn"] # <<>> /\ e.attrs["givenName"] # <<>>
    /\ e.attrs["departmentNumber"] \in {<<>>, <<"42">>}

\* C14. Manager-lookup failure is non-fatal: when the manager search of a
\* user entry fails with a protocol error, exactly one warning keyed by the
\* entry's DN is recorded and no failure, the user is built as it would be
\* without a manager (one work unit, no manager reference), and the
\* iteration goes on with the next entry.
C14_ManagerLookupFailureNonFatal ==
    ManagerLookupFailed =>
        /\ last.outcome.lookups = 1
        /\ Len(SelectSeq(last.outcome.warnings, LAMBDA w : w = last.entry.dn)) = 1
        /\ Len(SelectSeq(warnings, LAMBDA w : w = last.entry.dn)) >= 1
        /\ \A i \in 1..Len(last.outcome.wu) : ~last.outcome.wu[i].mce.managerUrn.exists
        /\ Buildable(last.entry) =>
              /\ Len(last.outcome.wu) = 1
              /\ last.outcome.wu[1].id = last.entry.dn
              /\ ldapEmitted # <<>> /\ ldapEmitted[Len(ldapEmitted)] = last.outcome.wu[1]
              /\ last.outcome.dropped = <<>>
              /\ ~last.outcome.raised
              /\ ldapPc # "RAISED"
        /\ LET unanswered == handle_user(last.entry.dn, last.entry.attrs, NoReply)
           IN  /\ last.outcome.wu = unanswered.wu
               /\ last.outcome.dropped = unanswered.dropped
               /\ last.outcome.raised = unanswered.raised
        /\ (ldapPc = "ENTRIES" /\ Len(responses) = 1) => failures = <<>>

\* C14 witness: the manager search of alice failed; alice was emitted without
\* a manager reference, one warning under her DN, and the next page was
\* fetched.
C14_Witness ==
    /\ ManagerLookupFailed
    /\ last.entry.dn = "cn=alice"
    /\ warnings = <<"cn=alice">>
    /\ Len(ldapEmitted) = 1 /\ ldapEmitted[1].id = "cn=alice"
    /\ ~ldapEmitted[1].mce.managerUrn.exists
    /\ managerCalls = 1
    /\ failures = <<>>
    /\ searchCalls = 2 /\ ldapPc = "ENTRIES"

----------------------------------------------------------------------------
\* Properties of the flush (specification Spec).

\* The iterations of the flush so far, one per entity.
FlushCalls == SelectSeq(calls, LAMBDA c : c.aspectName = SCHEMA_ASPECT_NAME)

\* The field paths of the entity's accumulated rows.
RowPaths(entity_urn) ==
    { InputSubRows(entity_urn)[i].field_path : i \in 1..Len(InputSubRows(entity_urn)) }

\* The iteration started from the empty list, marked dirty: one work unit,
\* holding exactly the fold of the entity's rows from the empty list.
WroteFromEmpty(c) ==
    /\ Len(c.wu) = 1
    /\ c.wu[1].id = <<c.entity_urn, SCHEMA_ASPECT_NAME>>
    /\ c.wu[1].editableSchemaFieldInfo = FoldFromEmpty(InputSubRows(c.entity_urn))
    /\ \A j \in 1..Len(c.wu[1].editableSchemaFieldInfo) :
          c.wu[1].editableSchemaFieldInfo[j].fieldPath \in RowPaths(c.entity_urn)

\* C15 as stated. Flush start state without a catalog: for each entity with
\* accumulated rows, when overwrite mode is on, or there is no catalog
\* connection, or the catalog holds no prior editableSchemaMetadata, the
\* flush starts from the empty list, marks the entity dirty and emits a
\* schema work unit; also in append mode with no catalog connection.
C15_FlushStartsFromEmpty ==
    \A n \in 1..Len(FlushCalls) :
        LET c == FlushCalls[n]
        IN  ( \/ should_overwrite
              \/ ~graph
              \/ ~catalog[c.entity_urn].editableSchemaMetadata.exists )
                => WroteFromEmpty(c)

\* C15 as amended. When overwrite mode is on (no fetch), or the run appends
\* with a connected catalog that holds no prior editableSchemaMetadata for
\* the entity (after the fetch), the flush starts from the empty list, marks
\* the entity dirty and emits one schema work unit. When the run appends
\* with no catalog connection the entity is skipped: no fetch, no work unit.
C15_FlushStartsFromEmptyUnlessCannotAppend ==
    \A n \in 1..Len(FlushCalls) :
        LET c == FlushCalls[n]
        IN  /\ should_overwrite => (~c.fetched /\ WroteFromEmpty(c))
            /\ ( /\ ~should_overwrite /\ graph
                 /\ ~catalog[c.entity_urn].editableSchemaMetadata.exists )
                  => (c.fetched /\ ~c.prior.exists /\ WroteFromEmpty(c))
            /\ (~should_overwrite /\ ~graph) => (~c.fetched /\ c.wu = <<>>)

\* C15 witness: an appending run with a connected catalog that holds nothing
\* for the entity, whose only row carries no terms and no tags, wrote an
\* empty field-info list.
C15_Witness ==
    /\ ~should_overwrite /\ graph /\ catalog = CatalogOne
    /\ csvPc = "done"
    /\ Len(FlushCalls) = 1
    /\ FlushCalls[1].entity_urn = Dataset2
    /\ FlushCalls[1].fetched
    /\ Len(FlushCalls[1].wu) = 1
    /\ FlushCalls[1].wu[1].editableSchemaFieldInfo = <<>>

IsSchemaUnit(wu) == wu.aspectName = SCHEMA_ASPECT_NAME

\* The entity's rows that carry terms or tags, in input order.
AssociatedSubRows(entity_urn) ==
    SelectSeq(InputSubRows(entity_urn),
              LAMBDA r : r.term_associations # <<>> \/ r.tag_associations # <<>>)

\* C16. Deferred flush ordering: while rows are being read no schema work
\* unit is emitted and no editableSchemaMetadata fetch is issued; every
\* entity-level work unit precedes every schema work unit; the rows of an
\* entity are accumulated in input order, none dropped, and folded in that
\* order (from an empty list, the first entry is the one of the first row
\* that carries associations).
C16_DeferredFlushOrdering ==
    /\ csvPc = "rows" =>
          /\ \A i \in 1..Len(emitted) : ~IsSchemaUnit(emitted[i])
          /\ FlushCalls = <<>>
    /\ FlushCalls # <<>> => rowsRead = Len(consumed)
    /\ \A i \in 1..Len(emitted) : \A j \in (i + 1)..Len(emitted) :
          IsSchemaUnit(emitted[i]) => IsSchemaUnit(emitted[j])
    /\ \A e \in Entities :
          /\ Len(editable_schema_metadata_map[e]) = Len(InputSubRows(e))
          /\ \A i \in 1..Len(InputSubRows(e)) :
                editable_schema_metadata_map[e][i].field_path = InputSubRows(e)[i].field_path
          /\ (csvPc = "rows" \/ e \notin { FlushCalls[n].entity_urn : n \in 1..Len(FlushCalls) })
                => editable_schema_metadata_map[e] = InputSubRows(e)
    /\ \A n \in 1..Len(FlushCalls) :
          LET c == FlushCalls[n]
              first == AssociatedSubRows(c.entity_urn)
          IN  /\ c.entity_urn = FirstSeen(consumed, <<>>)[n]
              /\ (c.wu # <<>> /\ ~c.prior.exists /\ first # <<>>) =>
                    /\ c.wu[1].editableSchemaFieldInfo # <<>>
                    /\ c.wu[1].editableSchemaFieldInfo[1].fieldPath = first[1].field_path

\* C16 witness: a run that read a subresource row, then a resource row, then
\* another subresource row with another path, wrote the entity-level unit
\* first and the schema unit, with the first row's entry first, at the end.
C16_Witness ==
    /\ csvPc = "done"
    /\ Len(consumed) = 3
    /\ consumed[1].subresource = FieldF1 /\ consumed[1].resource = Dataset1
    /\ consumed[2].subresource = NoSubresource
    /\ consumed[3].subresource = FieldV2F1 /\ consumed[3].resource = Dataset1
    /\ Len(emitted) >= 2
    /\ ~IsSchemaUnit(emitted[1])
    /\ IsSchemaUnit(emitted[Len(emitted)])
    /\ Len(emitted[Len(emitted)].editableSchemaFieldInfo) = 2
    /\ emitted[Len(emitted)].editableSchemaFieldInfo[1].fieldPath = FieldF1

\* The field paths of the entity's rows that carry terms or tags.
AssociatedPaths(entity_urn) ==
    { AssociatedSubRows(entity_urn)[i].field_path :
          i \in 1..Len(AssociatedSubRows(entity_urn)) }

\* C17. One field-info entry per column path: for an entity flushed from an
\* empty starting state, the emitted field-info list holds exactly one entry
\* per distinct field path among the rows that carry associations, whatever
\* the field-path strings are.
C17_OneEntryPerPath ==
    \A n \in 1..Len(FlushCalls) :
        LET c == FlushCalls[n]
        IN  (c.wu # <<>> /\ ~c.prior.exists) =>
                LET infos == c.wu[1].editableSchemaFieldInfo
                IN  /\ { infos[j].fieldPath : j \in 1..Len(infos) }
                          = AssociatedPaths(c.entity_urn)
                    /\ Len(infos) = Cardinality(AssociatedPaths(c.entity_urn))

\* An entry of the field-info list matches a row: its normalized field path
\* is the row's field path.
MatchesRow(info, r) ==
    get_simple_field_path_from_v2_field_path(info.fieldPath) = r.field_path

\* The aspect is missing on the entry, or the row brings an identifier that
\* is not on it.
Brings(new, aspect) ==
    new # <<>> /\ (~aspect.exists \/ Range(new) \ Range(aspect.items) # {})

\* The row changes the fetched field-info list.
ChangesPrior(r, infos) ==
    /\ r.term_associations # <<>> \/ r.tag_associations # <<>>
    /\ \/ \A j \in 1..Len(infos) : ~MatchesRow(infos[j], r)
       \/ \E j \in 1..Len(infos) :
             /\ MatchesRow(infos[j], r)
             /\ \/ Brings(r.term_associations, infos[j].glossaryTerms)
                \/ Brings(r.tag_associations, infos[j].globalTags)

\* C18. Dirty iff changed in append mode: with a fetched prior state the
\* flush of an entity emits one schema work unit if and only if some
\* accumulated row targets a path without a matching entry, or a matching
\* entry that lacks the aspect the row carries, or carries an identifier
\* that is not on a matching entry; otherwise it emits nothing. Rows with
\* neither terms nor tags change nothing.
C18_DirtyIffChanged ==
    \A n \in 1..Len(FlushCalls) :
        LET c == FlushCalls[n]
            rows == InputSubRows(c.entity_urn)
        IN  (~should_overwrite /\ c.fetched /\ c.prior.exists) =>
                /\ Len(c.wu) <= 1
                /\ Len(c.wu) = 1 <=>
                      \E i \in 1..Len(rows) : ChangesPrior(rows[i], c.prior.items)
                /\ AssociatedSubRows(c.entity_urn) = <<>> => c.wu = <<>>

\* C18 witness: against the same catalog, the flush of one dataset wrote (its
\* row met an entry without terms) and the flush of the other did not (its
\* row's terms and tags were all on the matching entry).
C18_Witness ==
    /\ ~should_overwrite /\ graph /\ catalog = CatalogTwo
    /\ csvPc = "done"
    /\ Len(FlushCalls) = 2
    /\ FlushCalls[1].entity_urn = Dataset1 /\ FlushCalls[1].prior.exists
    /\ Len(FlushCalls[1].wu) = 1
    /\ FlushCalls[2].entity_urn = Dataset2 /\ FlushCalls[2].prior.exists
    /\ AssociatedSubRows(Dataset2) # <<>>
    /\ FlushCalls[2].wu = <<>>

\* The merge of one row into the field-info list, every entry holding a list
\* of its own: each matching entry is filtered and extended, or replaced,
\* according to its own terms and tags; a row without a match is appended.
MergedOwn(aspect, new) ==
    IF new = <<>> THEN aspect
    ELSE IF aspect.exists /\ ~should_overwrite
    THEN Some(aspect.items \o SelectSeq(new, LAMBDA a : a \notin Range(aspect.items)))
    ELSE Some(new)

MergeRowOwn(infos, r) ==
    IF r.term_associations = <<>> /\ r.tag_associations = <<>> THEN infos
    ELSE IF \E j \in 1..Len(infos) : MatchesRow(infos[j], r)
    THEN [j \in 1..Len(infos) |->
             IF MatchesRow(infos[j], r)
             THEN FieldInfo(infos[j].fieldPath,
                            MergedOwn(infos[j].glossaryTerms, r.term_associations),
                            MergedOwn(infos[j].globalTags, r.tag_associations))
             ELSE infos[j]]
    ELSE Append(infos,
                FieldInfo(r.field_path,
                          IF r.term_associations = <<>> THEN None
                          ELSE Some(r.term_associations),
                          IF r.tag_associations = <<>> THEN None
                          ELSE Some(r.tag_associations)))

RECURSIVE FoldOwn(_, _, _)
FoldOwn(rows, i, infos) ==
    IF i > Len(rows) THEN infos
    ELSE FoldOwn(rows, i + 1, MergeRowOwn(infos, rows[i]))

\* C19. Multi-match field merge: a row is merged into every entry whose
\* normalized path is the row's path, each according to its own prior terms
\* and tags, and no entry is appended for it; what a later row does to one
\* matching entry changes another entry only by that row's own merge into
\* it. The written list is the one obtained when every entry holds a list of
\* its own.
C19_MergesIntoEveryMatch ==
    \A n \in 1..Len(FlushCalls) :
        LET c == FlushCalls[n]
        IN  c.wu # <<>> =>
                c.wu[1].editableSchemaFieldInfo =
                    FoldOwn(InputSubRows(c.entity_urn), 1,
                            IF c.prior.exists THEN c.prior.items ELSE <<>>)

\* C19 witness: the catalog held two entries for column f1 without terms; a
\* row with term a was merged into both, a later row with term b extended
\* both, and no entry was appended.
C19_Witness ==
    /\ ~should_overwrite /\ graph /\ catalog = CatalogThree
    /\ csvPc = "done"
    /\ Len(AssociatedSubRows(Dataset1)) = 2
    /\ Len(FlushCalls) = 1 /\ Len(FlushCalls[1].wu) = 1
    /\ LET infos == FlushCalls[1].wu[1].editableSchemaFieldInfo
       IN  /\ Len(infos) = 2
           /\ infos[1].fieldPath = FieldV2F1 /\ infos[2].fieldPath = FieldF1
           /\ infos[1].glossaryTerms = Some(<<IdA, IdB>>)
           /\ infos[2].glossaryTerms = Some(<<IdA, IdB>>)

\* The list of the last row for path p that carries terms (field
\* "term_associations") or tags (field "tag_associations"), if there is one.
LastCarried(rows, p, field) ==
    LET carrying == { i \in 1..Len(rows) : rows[i].field_path = p /\ rows[i][field] # <<>> }
    IN  IF carrying = {} THEN None
        ELSE Some(rows[CHOOSE i \in carrying : \A m \in carrying : m <= i][field])

\* The written list holds path p, and each of its entries for p holds the
\* terms and the tags of the last row for p that carries them.
LastWriterWins(infos, rows, p) ==
    /\ \E j \in 1..Len(infos) : infos[j].fieldPath = p
    /\ \A j \in 1..Len(infos) :
          infos[j].fieldPath = p =>
              /\ infos[j].glossaryTerms = LastCarried(rows, p, "term_associations")
              /\ infos[j].globalTags = LastCarried(rows, p, "tag_associations")

\* C20. Overwrite-mode field merge replaces wholesale: in overwrite mode, for
\* every entity and column path, the terms (tags) of that column in the
\* emitted field-info list are exactly the list of the last accumulated row
\* for that path that carries terms (tags), not the union over the rows;
\* terms and tags are decided independently.
C20_OverwriteLastWriterWins ==
    should_overwrite =>
        \A n \in 1..Len(FlushCalls) :
            LET c == FlushCalls[n]
            IN  \A p \in AssociatedPaths(c.entity_urn) :
                    /\ Len(c.wu) = 1
                    /\ LastWriterWins(c.wu[1].editableSchemaFieldInfo,
                                      InputSubRows(c.entity_urn), p)

\* The same for the entities all of whose rows name their column by its
\* simple path.
OverwriteLastWriterWinsOnSimplePaths ==
    should_overwrite =>
        \A n \in 1..Len(FlushCalls) :
            LET c == FlushCalls[n]
            IN  (\A p \in RowPaths(c.entity_urn) :
                     get_simple_field_path_from_v2_field_path(p) = p) =>
                    \A p \in AssociatedPaths(c.entity_urn) :
                        /\ Len(c.wu) = 1
                        /\ LastWriterWins(c.wu[1].editableSchemaFieldInfo,
                                          InputSubRows(c.entity_urn), p)

----------------------------------------------------------------------------
\* Properties of the directory crawl, continued (specification SpecLdap).

\* The cursor the latest answer leaves in the paging control: the cursor it
\* returned once line 246 has run, the cursor that was sent until then.
CursorInControl ==
    IF sent = <<>> THEN create_controls
    ELSE LET r == responses[Len(responses)]
         IN  IF ~r.error /\ HasPaged(r) /\ ldapPc \in {"PAGING", "DONE"}
             THEN CursorOf(r)
             ELSE sent[Len(sent)]

\* C21. Cursor threading and ownership: the first subtree search carries
\* the empty cursor and the (k+1)-th carries the cursor the k-th answer
\* returned; a manager lookup carries the paging control with the cursor of
\* the page being iterated and leaves it as it is, and the control changes
\* nowhere but at the end of a page.
C21_CursorThreading ==
    /\ Len(sent) = searchCalls /\ Len(responses) = searchCalls
    /\ sent # <<>> => sent[1] = ""
    /\ \A k \in 1..(Len(sent) - 1) :
          /\ ~responses[k].error
          /\ HasPaged(responses[k])
          /\ sent[k + 1] = CursorOf(responses[k])
    /\ Len(managerSent) = managerCalls
    /\ \A m \in 1..Len(managerSent) :
          managerSent[m].cookie = sent[managerSent[m].page]
    /\ lc_cookie = CursorInControl

\* C21 witness: the second subtree search carried the cursor c1 of the first
\* answer, a manager lookup made while its page was iterated carried c1 too,
\* and the control still holds c1.
C21_Witness ==
    /\ sent = <<"", "c1">>
    /\ CursorOf(responses[1]) = "c1"
    /\ ldapPc = "ENTRIES"
    /\ managerSent # <<>>
    /\ managerSent[Len(managerSent)] = [page |-> 2, cookie |-> "c1"]
    /\ lc_cookie = "c1"

\* C22. Protocol failure ends the crawl gracefully: when the subtree search
\* for page n fails, exactly one failure is recorded, the driver is DONE, no
\* further search is issued, no exception has left the iteration, and every
\* entry of the pages before n has been taken by the loop.
C22_SearchFailureEndsCrawl ==
    \A n \in 1..Len(responses) :
        responses[n].error =>
            /\ Len(responses) = n
            /\ searchCalls = n
            /\ ldapPc = "DONE"
            /\ failures = <<"ldap-control">>
            /\ \A k \in 1..(n - 1) : ~responses[k].error /\ HasPaged(responses[k])
            /\ dispatched = Received
            /\ ~last.outcome.raised

\* C22 witness: the first page brought two entries, one of which gave a work
\* unit, and the search for the second page failed.
C22_Witness ==
    /\ Len(responses) = 2
    /\ responses[1].entries = 2
    /\ responses[2].error
    /\ ldapEmitted # <<>>
    /\ dispatched = 2
    /\ ldapPc = "DONE"
    /\ failures = <<"ldap-control">>

\* The latest entry went to user handling with the required-name test on
\* and its first or last name absent.
DroppedForName == Taken /\ last.outcome.route = "user" /\ MissingRequiredName(last.entry)

\* C23 as stated. Required-name check comes first: such an entry is dropped
\* (no work unit, DN recorded as dropped) before anything else is extracted:
\* no identifier resolution, hence no fallback warning, and no manager search.
C23_RequiredNameCheckFirst ==
    DroppedForName =>
        /\ DroppedAndRecorded
        /\ last.outcome.warnings = <<>>
        /\ last.outcome.lookups = 0

\* C23 as amended. Such an entry is dropped (no work unit, DN recorded as
\* dropped), but only after the manager lookup and the identifier
\* resolution: a manager search is issued when the entry names a manager,
\* with the warning of a failed search or of a fallback in the manager's
\* entry, and the fallback warning of the entry's own identifier is recorded.
C23_DroppedAfterLookupAndResolution ==
    DroppedForName =>
        LET e == last.entry
            named == In(e.attrs, user_attrs_map.managerUrn)
            mwarnings == IF ~named THEN <<>>
                         ELSE IF last.reply.kind = "error" THEN <<e.dn>>
                         ELSE IF last.reply.kind = "entry"
                         THEN guess_person_ldap(last.reply.attrs).warnings
                         ELSE <<>>
        IN  /\ DroppedAndRecorded
            /\ last.outcome.lookups = IF named THEN 1 ELSE 0
            /\ last.outcome.warnings = mwarnings \o guess_person_ldap(e.attrs).warnings

\* C23 witness: an entry without first and last name that names a manager
\* and holds its identifier under the fallback attribute only is dropped
\* after a failed manager search and a fallback warning.
C23_Witness ==
    /\ DroppedForName
    /\ drop_missing_first_last_name
    /\ last.entry.dn = "cn=carol"
    /\ last.reply.kind = "error"
    /\ last.outcome.lookups = 1
    /\ last.outcome.warnings = <<"cn=carol", GENERAL>>
    /\ dropped_dns[Len(dropped_dns)] = "cn=carol"

----------------------------------------------------------------------------
\* Properties of the tabular enrichment, continued (specification Spec).

\* C24. Accumulated rows are immutable: the list the map holds for an
\* entity is, at every moment of the main pass and of the flush, the list of
\* the rows accumulated for it as they were when they were appended (field
\* path, terms and tags), and the list of an entity is read by one flush only.
C24_AccumulatedRowsImmutable ==
    \A e \in Entities :
        /\ editable_schema_metadata_map[e] = InputSubRows(e)
        /\ Cardinality({ n \in 1..Len(FlushCalls) : FlushCalls[n].entity_urn = e }) <= 1

\* A read of the catalog: the aspect asked for and the entity.
Read(aspectName, entity_urn) == [aspectName |-> aspectName, entity_urn |-> entity_urn]

\* The reads of entity-level aspects issued so far, in order.
EntityReads ==
    LET fetching == SelectSeq(calls, LAMBDA c : c.fetched /\ c.aspectName \in EntityAspects)
    IN  [n \in 1..Len(fetching) |-> Read(fetching[n].aspectName, fetching[n].entity_urn)]

\* One read per resource row and aspect for which the row brings a non-empty
\* list: terms, then tags, then owners.
RECURSIVE ReadsFor(_)
ReadsFor(rows) ==
    IF rows = <<>> THEN <<>>
    ELSE LET r == Head(rows)
             wanted == r.resource # "" /\ r.subresource = NoSubresource
         IN  (IF wanted /\ maybe_extract_glossary_terms(r) # <<>>
              THEN <<Read(GLOSSARY_TERMS_ASPECT_NAME, r.resource)>> ELSE <<>>)
             \o (IF wanted /\ maybe_extract_tags(r) # <<>>
                 THEN <<Read(TAGS_ASPECT_NAME, r.resource)>> ELSE <<>>)
             \o (IF wanted /\ maybe_extract_owners(r, TRUE) # <<>>
                 THEN <<Read(OWNERSHIP_ASPECT_NAME, r.resource)>> ELSE <<>>)
             \o ReadsFor(Tail(rows))

\* C25. Catalog reads happen only when appending: in overwrite mode no call
\* reads the catalog, whatever the aspect; in append mode with a catalog
\* the reads of entity-level aspects are exactly one per resource row and
\* aspect for which the row brings a non-empty list; in append mode with no
\* catalog connection no call reads anything or returns a work unit, and
\* the report stays as it was.
C25_ReadsOnlyWhenAppending ==
    /\ should_overwrite => \A n \in 1..Len(calls) : ~calls[n].fetched
    /\ (~should_overwrite /\ graph) => EntityReads = ReadsFor(consumed)
    /\ (~should_overwrite /\ ~graph) =>
          /\ \A n \in 1..Len(calls) : ~calls[n].fetched /\ calls[n].wu = <<>>
          /\ emitted = <<>>
          /\ report.workunits_produced = 0
          /\ report.num_glossary_term_workunits_produced = 0
          /\ report.num_tag_workunits_produced = 0
          /\ report.num_owners_workunits_produced = 0

\* C25 witness: append mode without a catalog connection; resource rows
\* with terms, tags and owners were reconciled, nothing was read and
\* nothing was emitted.
C25_Witness ==
    /\ ~should_overwrite /\ ~graph
    /\ \E n \in 1..Len(calls) : calls[n].aspectName = GLOSSARY_TERMS_ASPECT_NAME
    /\ \E n \in 1..Len(calls) : calls[n].aspectName = TAGS_ASPECT_NAME
    /\ \E n \in 1..Len(calls) : calls[n].aspectName = OWNERSHIP_ASPECT_NAME
    /\ \A n \in 1..Len(calls) : ~calls[n].fetched
    /\ emitted = <<>>

----------------------------------------------------------------------------
\* Properties of the enrichment with its sink (specification SpecSink).

\* The reconciler calls made for an entity-level aspect of an entity.
CallsFor(entity_urn, aspectName) ==
    SelectSeq(calls, LAMBDA c : c.entity_urn = entity_urn /\ c.aspectName = aspectName)

\* The file has been read and the sink has written every work unit.
AllWritten == csvPc = "done" /\ applied = Len(emitted)

\* C26. Append-mode read-modify-write does not lose updates across rows:
\* in append mode with a live catalog, once the sink has written every
\* emitted work unit, in emission order and each at some moment after its
\* emission, the aspect of an entity holds what the catalog held at the
\* first read and the identifiers brought by every resource row for that
\* entity and aspect.
C26_NoLostUpdates ==
    (~should_overwrite /\ graph /\ AllWritten) =>
        \A e \in Entities, a \in EntityAspects :
            LET cs == CallsFor(e, a)
                final == catalog[e][AspectField(a)]
            IN  cs # <<>> =>
                    /\ final.exists
                    /\ Range(cs[1].prior.items) \subseteq Range(final.items)
                    /\ \A n \in 1..Len(cs) : Range(cs[n].new) \subseteq Range(final.items)

----------------------------------------------------------------------------
\* Properties of the tabular enrichment, continued (specification Spec).

----------------------------------------------------------------------------
\* Properties of the directory crawl, continued (specification SpecLdap).

\* The identifier attributes of an attribute map: the configured one,
\* sAMAccountName, uid.
IdentifierAttrs == {user_attrs_map.urn, "sAMAccountName", "uid"}

HasIdentifier(attrs) == \E a \in IdentifierAttrs : In(attrs, a)

\* C28. A user work unit always has a resolved identifier: the work unit of
\* a user entry names the user by an identifier found in the entry (the
\* configured attribute, else sAMAccountName, else uid), which is also its
\* email when the entry has none; an entry without any of these gives no
\* user work unit; and a manager reference is set only from an identifier
\* found in the manager's entry.
C28_UserWorkUnitHasIdentifier ==
    (Taken /\ last.outcome.route = "user" /\ last.outcome.wu # <<>>) =>
        LET attrs == last.entry.attrs
            mce == last.outcome.wu[1].mce
        IN  /\ HasIdentifier(attrs)
            /\ mce.ldap_user.exists
            /\ \E a \in IdentifierAttrs :
                  In(attrs, a) /\ mce.urn = CorpUserUrn(attrs[a][1])
            /\ mce.email.exists
            /\ mce.managerUrn.exists =>
                  /\ last.reply.kind = "entry"
                  /\ \E a \in IdentifierAttrs :
                        /\ In(last.reply.attrs, a)
                        /\ mce.managerUrn = Some(CorpUserUrn(last.reply.attrs[a][1]))

----------------------------------------------------------------------------
\* Properties of the tabular enrichment, continued (specification Spec).

\* The entity-level reconciler calls made so far, in order.
EntityCalls == SelectSeq(calls, LAMBDA c : c.aspectName \in EntityAspects)

\* The work units the calls returned, in the order of the calls.
RECURSIVE Returns(_)
Returns(cs) == IF cs = <<>> THEN <<>> ELSE Head(cs).wu \o Returns(Tail(cs))

CountOf(aspectName) ==
    Cardinality({ n \in 1..Len(emitted) : emitted[n].aspectName = aspectName })

\* C29. Subresource rows never reach entity-level aspects, and only dataset
\* columns are accumulated: every entity-level call, read and work unit
\* comes from a row with a non-empty resource and an empty subresource; the
\* accumulator holds exactly the rows with a subresource, a non-empty
\* resource and an entity of type dataset, in input order; and what was
\* emitted and reported comes from those calls and flushes only, so that a
\* row with an empty resource leaves accumulator, report and output alone.
C29_SubresourceRowsStayOffEntityAspects ==
    /\ \A n \in 1..Len(EntityCalls) : EntityCalls[n].subresource = NoSubresource
    /\ [n \in 1..Len(EntityCalls) |->
           Read(EntityCalls[n].aspectName, EntityCalls[n].entity_urn)]
          = ReadsFor(consumed)
    /\ \A e \in Entities :
          /\ Len(editable_schema_metadata_map[e]) = Len(InputSubRows(e))
          /\ \A i \in 1..Len(InputSubRows(e)) :
                editable_schema_metadata_map[e][i].field_path = InputSubRows(e)[i].field_path
          /\ e \in Range(mapKeys) <=> InputSubRows(e) # <<>>
    /\ emitted = Returns(calls)
    /\ report.num_glossary_term_workunits_produced = CountOf(GLOSSARY_TERMS_ASPECT_NAME)
    /\ report.num_tag_workunits_produced = CountOf(TAGS_ASPECT_NAME)
    /\ report.num_owners_workunits_produced = CountOf(OWNERSHIP_ASPECT_NAME)
    /\ report.num_editable_schema_metadata_workunits_produced = CountOf(SCHEMA_ASPECT_NAME)

\* C29 witness: a row without resource, a column row of a chart and a column
\* row of a dataset, each with owners, were read: only the dataset's row is
\* in the accumulator, and no call was made and nothing emitted.
C29_Witness ==
    /\ csvPc = "rows"
    /\ Len(consumed) = 3
    /\ \E n \in 1..3 : consumed[n].resource = "" /\ consumed[n].owners # <<>>
    /\ \E n \in 1..3 : /\ consumed[n].resource = Chart1
                       /\ consumed[n].subresource # NoSubresource
                       /\ consumed[n].owners # <<>>
    /\ \E n \in 1..3 : /\ consumed[n].resource = Dataset1
                       /\ consumed[n].subresource # NoSubresource
                       /\ consumed[n].owners # <<>>
    /\ Len(editable_schema_metadata_map[Dataset1]) = 1
    /\ editable_schema_metadata_map[Chart1] = <<>>
    /\ mapKeys = <<Dataset1>>
    /\ calls = <<>>
    /\ emitted = <<>>
    /\ report.workunits_produced = 0

----------------------------------------------------------------------------
\* Properties of the directory crawl, continued (specification SpecLdap).

\* The optional fields of an entry are well-formed: a department number, if
\* present, is a number.
WellFormedOptionals(e) ==
    In(e.attrs, user_attrs_map.departmentId) =>
        IsDecimal(e.attrs[user_attrs_map.departmentId][1])

\* C30. Exactly one outcome per classified entry: an entry with a DN and a
\* non-empty attribute map whose optional fields are well-formed gives
\* either one work unit whose id is its DN or one record of its DN in the
\* dropped list, never both and never neither; an entry with a user class
\* and a group class is handled as a user; and its work unit is emitted
\* after those of all entries returned before it.
C30_ExactlyOneOutcome ==
    (Classified /\ WellFormedOptionals(last.entry)) =>
        LET h == last.outcome
            dn == last.entry.dn
            unit == /\ Len(h.wu) = 1 /\ h.wu[1].id = dn /\ h.dropped = <<>>
                    /\ ldapEmitted # <<>> /\ ldapEmitted[Len(ldapEmitted)] = h.wu[1]
            drop == /\ h.wu = <<>> /\ h.dropped = <<dn>>
                    /\ dropped_dns # <<>> /\ dropped_dns[Len(dropped_dns)] = dn
        IN  /\ (unit \/ drop) /\ ~(unit /\ drop)
            /\ ~h.raised
            /\ (In(last.entry.attrs, "objectClass")
                  /\ ClassesOf(last.entry) \cap UserClasses # {}
                  /\ ClassesOf(last.entry) \cap GroupClasses # {}) => h.route = "user"

====
